---- MODULE Spec2Model ----
(***************************************************************************)
(* Model of the alert processing loop of the ticket price tracker:         *)
(* src/src/alert_manager.py (AlertManager) over the tables of              *)
(* src/src/models.py, with the SQLAlchemy session split into the committed *)
(* rows and the session's uncommitted view (dirty objects, pending rows).  *)
(* Prices are integers (a fixed-point view of the Float columns).          *)
(***************************************************************************)
EXTENDS Integers, Sequences, FiniteSets, TLC

\* ---------------------------------------------------------------- bounds
NumAlerts == 2
MaxPrice == 3
MaxCalls == 3

AlertIds == 1..NumAlerts
Prices == 1..MaxPrice
TargetPrices == {MaxPrice - 1, MaxPrice}

\* Optional[x]: None is the empty tuple, a present value x is <<x>>
None == <<>>
Some(x) == <<x>>
IsNone(o) == o = <<>>
Val(o) == o[1]

VARIABLES
    alerts,             \* committed rows of table alerts
    price_records,      \* committed rows of table price_records, in id order
    notification_logs,  \* committed rows of table notification_logs, in id order
    mem,                \* the session's Alert objects (uncommitted view)
    pending,            \* rows added to the session and not yet committed
    clock,              \* datetime.now()
    pc,                 \* position of the processing thread
    batch,              \* process_all_alerts: the queried active alerts
    idx,                \* process_all_alerts: position of the for loop
    stats,              \* process_all_alerts: the tally
    result,             \* process_alert: the ScrapeResult of the current call
    decision,           \* process_alert: (should_notify, reason)
    sendres,            \* process_alert: what the notifier did in the current call
    ncalls,             \* number of finished process_alert calls
    last_call,          \* the most recent finished process_alert call
    hist,               \* per alert, a summary of its finished calls
    scraper,            \* process_alert: the scraper object of the current call
    page,               \* the marketplace page the renderer shows
    sched,              \* the AlertScheduler, the thread calling it and its job thread
    smtp,               \* send_notification: its SMTP session and its return value
    alerts_config       \* the entries of alerts.yaml handed to sync_alerts_to_db

vars == <<alerts, price_records, notification_logs, mem, pending, clock, pc,
          batch, idx, stats, result, decision, sendres, ncalls, last_call, hist, scraper, page, sched, smtp, alerts_config>>

\* ------------------------------------------------------------ scrape results
\* ScrapeResult(price, availability): _check_availability gives sold_out or
\* available with a price, sold_out or unknown without one
ScrapeResult ==
    {[price |-> Some(p), availability |-> a] :
        p \in Prices, a \in {"available", "sold_out"}}
    \cup {[price |-> None, availability |-> a] : a \in {"unknown", "sold_out"}}

NoResult == [price |-> None, availability |-> "none"]

\* what EmailNotifier.send_notification can do as seen by the caller
SendOutcome == {"ok", "false", "raised"}

\* --------------------------------------------------------- decision function
\* _should_notify with the price-drop test weakened to <=
should_notify_le(alert, current_price) ==
    IF current_price >= alert.target_price
    THEN <<FALSE, "">>
    ELSE IF IsNone(alert.last_notified_price)
    THEN <<TRUE, "first_time">>
    ELSE IF current_price <= Val(alert.last_notified_price)
    THEN <<TRUE, "price_drop">>
    ELSE <<FALSE, "">>

\* _should_notify with the target test weakened to >
should_notify_at_target(alert, current_price) ==
    IF current_price > alert.target_price
    THEN <<FALSE, "">>
    ELSE IF IsNone(alert.last_notified_price)
    THEN <<TRUE, "first_time">>
    ELSE IF current_price < Val(alert.last_notified_price)
    THEN <<TRUE, "price_drop">>
    ELSE <<FALSE, "">>

\* _should_notify firing on any change of price below the target
should_notify_on_change(alert, current_price) ==
    IF current_price >= alert.target_price
    THEN <<FALSE, "">>
    ELSE IF IsNone(alert.last_notified_price)
    THEN <<TRUE, "first_time">>
    ELSE IF current_price # Val(alert.last_notified_price)
    THEN <<TRUE, "price_drop">>
    ELSE <<FALSE, "">>

\* _should_notify with the price-drop test reversed
should_notify_gt(alert, current_price) ==
    IF current_price >= alert.target_price
    THEN <<FALSE, "">>
    ELSE IF IsNone(alert.last_notified_price)
    THEN <<TRUE, "first_time">>
    ELSE IF current_price > Val(alert.last_notified_price)
    THEN <<TRUE, "price_drop">>
    ELSE <<FALSE, "">>

\* _should_notify calling every notification a first one
should_notify_always_first_time(alert, current_price) ==
    IF current_price >= alert.target_price
    THEN <<FALSE, "">>
    ELSE IF IsNone(alert.last_notified_price)
    THEN <<TRUE, "first_time">>
    ELSE IF current_price < Val(alert.last_notified_price)
    THEN <<TRUE, "first_time">>
    ELSE <<FALSE, "">>

\* AlertManager._should_notify
_should_notify(alert, current_price) ==
    IF current_price >= alert.target_price
    THEN <<FALSE, "">>
    ELSE IF IsNone(alert.last_notified_price)
    THEN <<TRUE, "first_time">>
    ELSE IF current_price < Val(alert.last_notified_price)
    THEN <<TRUE, "price_drop">>
    ELSE <<FALSE, "">>

\* ------------------------------------------------------------------ session
PendingOf(table) == SelectSeq(pending, LAMBDA o : o.table = table)
Rows(objs) == [i \in 1..Len(objs) |-> objs[i].row]

\* no call yet / the summary of an alert that was never processed
NoCall == [alert_id |-> 0, raised |-> FALSE, price |-> None, sent |-> <<>>,
           returned |-> FALSE, at |-> 0]
NoHist == [calls |-> 0, raised |-> 0, priced |-> 0, committed |-> 0,
           send_failed |-> FALSE, last_sent |-> None, failed_send |-> <<>>]

\* ------------------------------------------------------------------ scraper
\* scrape_with_retry: stop_after_attempt(3)
MaxAttempts == 3
\* scrape_with_retry: wait_exponential(multiplier=1, min=2, max=10)
WaitMultiplier == 1
WaitMin == 2
WaitMax == 10

\* BaseScraper.__init__: no engine, no browser, no page; with them, what
\* scrape_with_retry did in the current call: the attempts made, the
\* attempts that raised, the diagnostics written, the backoff delays slept,
\* the exception in flight, the exception scrape_with_retry raised to its
\* caller, and the calls of start() and stop()
NewScraper ==
    [playwright |-> "none", browser |-> "none", page |-> "none",
     attempt |-> 0, failed |-> 0, screenshots |-> 0, dumps |-> 0,
     delays |-> <<>>, exc |-> <<>>, surfaced |-> <<>>,
     starts |-> 0, stops |-> 0]

\* --------------------------------------------------------------------- pages
\* A page text is a sequence of tokens: a price occurrence (a currency symbol
\* followed by digit groups separated by commas) or a phrase, in lower or in
\* other case.
MaxTokens == 2
\* _build_raw_data: price_matches[:10]
RawLimit == 10

PriceToken(c, groups) == [kind |-> "price", currency |-> c, groups |-> groups]
PhraseToken(words, upper) == [kind |-> "phrase", words |-> words, upper |-> upper]

Tokens ==
    {PriceToken("USD", <<1>>), PriceToken("GBP", <<2>>), PriceToken("EUR", <<3>>),
     PriceToken("USD", <<1, 0>>),
     PhraseToken("sold out", FALSE), PhraseToken("sold out", TRUE),
     PhraseToken("unavailable", FALSE), PhraseToken("no longer on sale", FALSE)}

Texts == UNION {[1..n -> Tokens] : n \in 0..MaxTokens}

\* a listing page repeating one price more often than the diagnostics keep
LongTexts == {[i \in 1..(RawLimit + 1) |-> t] : t \in {PriceToken("USD", <<1>>)}}

Sources == {"ticketmaster", "stubhub", "viagogo"}

\* what the renderer shows for one alert: the body text, the markup, and the
\* call of the page API that raises, if any
Pages ==
    [source : Sources,
     text : Texts \cup LongTexts,
     html : {<<>>, <<PriceToken("GBP", <<2>>), PhraseToken("sold out", FALSE)>>},
     fails : {"none", "goto", "inner_text", "title"}]

NoPage == [source |-> "none", text |-> <<>>, html |-> <<>>, fails |-> "none"]

\* ----------------------------------------------------------------- scheduler
MaxJitter == 2
MaxPasses == 2

\* AlertScheduler.__init__: nothing registered, the BackgroundScheduler not
\* running; at: where the calling thread and the job's pool thread are;
\* left: the alerts each still has to process in its pass; sleeps: the jitter
\* sleeps each has made for its pass
NewSched(jitter_minutes) ==
    [jitter_minutes |-> jitter_minutes,
     running |-> FALSE,
     job |-> FALSE,
     at |-> [caller |-> "idle", worker |-> "idle"],
     left |-> [caller |-> 0, worker |-> 0],
     sleeps |-> [caller |-> <<>>, worker |-> <<>>],
     npass |-> 0,
     last |-> "none",
     aborted |-> "none"]

NoSched == NewSched(0)

\* ------------------------------------------------------------------ notifier
\* no send_notification call made yet: at is the step the call has reached,
\* call the number of the process_alert call it serves, handed whether
\* send_message returned, ret the value returned, raised whether it raised
NewSmtp ==
    [at |-> "idle", call |-> 0, handed |-> FALSE, ret |-> FALSE, raised |-> FALSE,
     failed |-> "none"]

\* ---------------------------------------------------------------------- Init
\* a fresh database after config sync: every alert has no last_notified_price
\* and no last_checked, no records exist; the configured targets alternate
\* between the two highest prices, any alert may be inactive
Init ==
    /\ alerts \in [AlertIds -> {[target_price |-> t, last_notified_price |-> None,
                                 last_checked |-> None, is_active |-> act] :
                                 t \in TargetPrices, act \in BOOLEAN}]
    /\ \A a \in AlertIds : alerts[a].target_price = MaxPrice - ((a + 1) % 2)
    /\ price_records = <<>>
    /\ notification_logs = <<>>
    /\ mem = alerts
    /\ pending = <<>>
    /\ clock = 0
    /\ pc = "idle"
    /\ batch = <<>>
    /\ idx = 0
    /\ stats = [total |-> 0, success |-> 0, failed |-> 0]
    /\ result = NoResult
    /\ decision = <<FALSE, "">>
    /\ sendres = <<>>
    /\ ncalls = 0
    /\ last_call = NoCall
    /\ hist = [a \in AlertIds |-> NoHist]
    /\ scraper = NewScraper
    /\ page = NoPage
    /\ sched = NoSched
    /\ smtp = NewSmtp
    /\ alerts_config = <<>>

\* ---------------------------------------------------------- process_all_alerts
\* the query without its filter on is_active
alerts_unfiltered == AlertIds

\* process_all_alerts: query(Alert).filter(Alert.is_active.is_(True))
ActiveAlerts == {a \in AlertIds : alerts[a].is_active}

RECURSIVE SortedSeq(_)
SortedSeq(S) ==
    IF S = {} THEN <<>>
    ELSE LET m == CHOOSE x \in S : \A y \in S : x <= y
         IN <<m>> \o SortedSeq(S \ {m})

\* process_all_alerts up to the for loop: query the active alerts, start the tally
ProcessAllAlerts ==
    /\ pc = "idle"
    /\ ncalls < MaxCalls
    /\ batch' = SortedSeq(ActiveAlerts)
    /\ stats' = [total |-> Cardinality(ActiveAlerts), success |-> 0, failed |-> 0]
    /\ idx' = 1
    /\ pc' = IF ActiveAlerts = {} THEN "done" ELSE "scrape"
    /\ UNCHANGED <<alerts, price_records, notification_logs, mem, pending, clock,
                   result, decision, sendres, ncalls, last_call, hist, scraper, page, sched, smtp, alerts_config>>

\* the record of a finished process_alert call: what its scrape gave, what
\* the notifier did, what it returned, and the alert's summary after it
Finished(ret, raised) ==
    LET a == batch[idx]
        priced == ~raised /\ ~IsNone(result.price)
        sent_ok == sendres # <<>> /\ sendres[1].outcome = "ok"
    IN /\ ncalls' = ncalls + 1
       /\ last_call' = [alert_id |-> a, raised |-> raised, price |-> result.price,
                        sent |-> sendres, returned |-> ret, at |-> clock']
       /\ hist' = [hist EXCEPT ![a] =
              [calls |-> @.calls + 1,
               raised |-> @.raised + (IF raised THEN 1 ELSE 0),
               priced |-> @.priced + (IF priced THEN 1 ELSE 0),
               committed |-> @.committed + (IF ret THEN 1 ELSE 0),
               send_failed |-> @.send_failed \/ (sendres # <<>> /\ ~sent_ok),
               last_sent |-> IF sent_ok THEN Some(sendres[1].current_price)
                             ELSE @.last_sent,
               failed_send |-> IF sendres # <<>> /\ ~sent_ok
                               THEN <<[current_price |-> sendres[1].current_price,
                                       trigger_reason |-> sendres[1].trigger_reason,
                                       previous_price |-> sendres[1].previous_price]>>
                               ELSE <<>>]]

\* the tally counting a call that found no price as failed
returned_no_price_failed(ret, raised) ==
    /\ stats' = IF ret /\ ~IsNone(result.price)
                THEN [stats EXCEPT !.success = @ + 1]
                ELSE [stats EXCEPT !.failed = @ + 1]
    /\ Finished(ret, raised)
    /\ idx' = idx + 1
    /\ pc' = IF idx + 1 > Len(batch) THEN "done" ELSE "scrape"
    /\ result' = NoResult
    /\ decision' = <<FALSE, "">>
    /\ sendres' = <<>>

\* the tally counting a call whose notification could not be sent as failed
returned_send_failure_failed(ret, raised) ==
    /\ stats' = IF ret /\ (sendres = <<>> \/ sendres[1].outcome = "ok")
                THEN [stats EXCEPT !.success = @ + 1]
                ELSE [stats EXCEPT !.failed = @ + 1]
    /\ Finished(ret, raised)
    /\ idx' = idx + 1
    /\ pc' = IF idx + 1 > Len(batch) THEN "done" ELSE "scrape"
    /\ result' = NoResult
    /\ decision' = <<FALSE, "">>
    /\ sendres' = <<>>

\* the end of one process_alert call inside the for loop: the tally of its
\* return value and the step to the next alert
Returned(ret, raised) ==
    /\ stats' = IF ret THEN [stats EXCEPT !.success = @ + 1]
                       ELSE [stats EXCEPT !.failed = @ + 1]
    /\ Finished(ret, raised)
    /\ idx' = idx + 1
    /\ pc' = IF idx + 1 > Len(batch) THEN "done" ELSE "scrape"
    /\ result' = NoResult
    /\ decision' = <<FALSE, "">>
    /\ sendres' = <<>>

\* a rollback that leaves the added rows in the session
rollback_keeps_pending ==
    /\ mem' = alerts
    /\ pending' = pending
    /\ UNCHANGED <<alerts, price_records, notification_logs>>

\* a rollback that leaves the changed objects dirty
rollback_keeps_dirty ==
    /\ mem' = mem
    /\ pending' = <<>>
    /\ UNCHANGED <<alerts, price_records, notification_logs>>

\* Session.rollback: pending rows are dropped, objects reload from the rows
Rollback ==
    /\ mem' = alerts
    /\ pending' = <<>>
    /\ UNCHANGED <<alerts, price_records, notification_logs>>

\* a commit that writes the changed objects and loses the added rows
commit_drops_pending ==
    /\ alerts' = mem
    /\ UNCHANGED <<price_records, notification_logs>>
    /\ pending' = <<>>
    /\ UNCHANGED mem

\* Session.commit: dirty objects and pending rows become committed
Commit ==
    /\ alerts' = mem
    /\ price_records' = price_records \o Rows(PendingOf("price_records"))
    /\ notification_logs' = notification_logs \o Rows(PendingOf("notification_logs"))
    /\ pending' = <<>>
    /\ UNCHANGED mem

\* process_alert, get_scraper and scrape_with_retry raising: the except branch
ScrapeRaises ==
    /\ pc = "scrape"
    /\ ncalls < MaxCalls
    /\ clock' = clock + 1
    /\ Rollback
    /\ Returned(FALSE, TRUE)
    /\ UNCHANGED <<batch, scraper, page, sched, smtp, alerts_config>>

\* process_alert, scrape_with_retry returning a ScrapeResult
ScrapeReturns(r) ==
    /\ pc = "scrape"
    /\ ncalls < MaxCalls
    /\ clock' = clock + 1
    /\ result' = r
    /\ pc' = "store"
    /\ UNCHANGED <<alerts, price_records, notification_logs, mem, pending,
                   batch, idx, stats, decision, sendres, ncalls, last_call, hist, scraper, page, sched, smtp, alerts_config>>

\* the alert the for loop is at
cur == batch[idx]

\* process_alert stamping last_checked only when a price was scraped
store_stamp_if_price ==
    /\ pc = "store"
    /\ IF ~IsNone(result.price)
       THEN /\ mem' = [mem EXCEPT ![cur].last_checked = Some(clock)]
            /\ pending' = Append(pending,
                  [table |-> "price_records",
                   row |-> [alert_id |-> cur, price |-> Val(result.price),
                            availability |-> result.availability]])
            /\ pc' = "decide"
       ELSE /\ mem' = mem
            /\ pending' = pending
            /\ pc' = "commit"
    /\ UNCHANGED <<alerts, price_records, notification_logs, clock, batch, idx,
                   stats, result, decision, sendres, ncalls, last_call, hist, scraper, page, sched, smtp, alerts_config>>

\* process_alert: stamp last_checked, add the PriceRecord when a price was scraped
Store ==
    /\ pc = "store"
    /\ mem' = [mem EXCEPT ![cur].last_checked = Some(clock)]
    /\ IF ~IsNone(result.price)
       THEN /\ pending' = Append(pending,
                  [table |-> "price_records",
                   row |-> [alert_id |-> cur, price |-> Val(result.price),
                            availability |-> result.availability]])
            /\ pc' = "decide"
       ELSE /\ pending' = pending
            /\ pc' = "commit"
    /\ UNCHANGED <<alerts, price_records, notification_logs, clock, batch, idx,
                   stats, result, decision, sendres, ncalls, last_call, hist, scraper, page, sched, smtp, alerts_config>>

\* process_alert asking _should_notify only for tickets that are not sold out
decide_unless_sold_out ==
    /\ pc = "decide"
    /\ decision' = IF result.availability = "sold_out" THEN <<FALSE, "">>
                   ELSE _should_notify(mem[cur], Val(result.price))
    /\ pc' = IF decision'[1] THEN "send" ELSE "commit"
    /\ UNCHANGED <<alerts, price_records, notification_logs, mem, pending, clock,
                   batch, idx, stats, result, sendres, ncalls, last_call, hist, scraper, page, sched, smtp, alerts_config>>

\* process_alert: the call of _should_notify and the branch on its result
Decide ==
    /\ pc = "decide"
    /\ decision' = _should_notify(mem[cur], Val(result.price))
    /\ pc' = IF decision'[1] THEN "send" ELSE "commit"
    /\ UNCHANGED <<alerts, price_records, notification_logs, mem, pending, clock,
                   batch, idx, stats, result, sendres, ncalls, last_call, hist, scraper, page, sched, smtp, alerts_config>>

\* _send_notification writing last_notified_price before looking at success
send_notification_unchecked(outcome) ==
    /\ pc = "send"
    /\ LET current_price == Val(result.price)
           reason == decision[2]
       IN /\ sendres' = <<[current_price |-> current_price,
                           target_price |-> mem[cur].target_price,
                           trigger_reason |-> reason,
                           previous_price |-> mem[cur].last_notified_price,
                           outcome |-> outcome]>>
          /\ mem' = [mem EXCEPT ![cur].last_notified_price = Some(current_price)]
          /\ IF outcome = "ok"
             THEN pending' = Append(pending,
                        [table |-> "notification_logs",
                         row |-> [alert_id |-> cur, trigger_reason |-> reason,
                                  price |-> current_price]])
             ELSE UNCHANGED pending
    /\ pc' = "commit"
    /\ UNCHANGED <<alerts, price_records, notification_logs, clock, batch, idx,
                   stats, result, decision, ncalls, last_call, hist, scraper, page, sched, smtp, alerts_config>>

\* _send_notification logging the row whenever the notifier returned
send_notification_logs_false(outcome) ==
    /\ pc = "send"
    /\ LET current_price == Val(result.price)
           reason == decision[2]
       IN /\ sendres' = <<[current_price |-> current_price,
                           target_price |-> mem[cur].target_price,
                           trigger_reason |-> reason,
                           previous_price |-> mem[cur].last_notified_price,
                           outcome |-> outcome]>>
          /\ IF outcome = "ok"
             THEN mem' = [mem EXCEPT ![cur].last_notified_price = Some(current_price)]
             ELSE UNCHANGED mem
          /\ IF outcome # "raised"
             THEN pending' = Append(pending,
                        [table |-> "notification_logs",
                         row |-> [alert_id |-> cur, trigger_reason |-> reason,
                                  price |-> current_price]])
             ELSE UNCHANGED pending
    /\ pc' = "commit"
    /\ UNCHANGED <<alerts, price_records, notification_logs, clock, batch, idx,
                   stats, result, decision, ncalls, last_call, hist, scraper, page, sched, smtp, alerts_config>>

\* _send_notification taking every return of the notifier for a success
send_notification_sets_on_false(outcome) ==
    /\ pc = "send"
    /\ LET current_price == Val(result.price)
           reason == decision[2]
       IN /\ sendres' = <<[current_price |-> current_price,
                           target_price |-> mem[cur].target_price,
                           trigger_reason |-> reason,
                           previous_price |-> mem[cur].last_notified_price,
                           outcome |-> outcome]>>
          /\ IF outcome # "raised"
             THEN mem' = [mem EXCEPT ![cur].last_notified_price = Some(current_price)]
             ELSE UNCHANGED mem
          /\ IF outcome = "ok"
             THEN pending' = Append(pending,
                        [table |-> "notification_logs",
                         row |-> [alert_id |-> cur, trigger_reason |-> reason,
                                  price |-> current_price]])
             ELSE UNCHANGED pending
    /\ pc' = "commit"
    /\ UNCHANGED <<alerts, price_records, notification_logs, clock, batch, idx,
                   stats, result, decision, ncalls, last_call, hist, scraper, page, sched, smtp, alerts_config>>

\* AlertManager._send_notification
_send_notification(outcome) ==
    /\ pc = "send"
    /\ LET current_price == Val(result.price)
           reason == decision[2]
       IN /\ sendres' = <<[current_price |-> current_price,
                           target_price |-> mem[cur].target_price,
                           trigger_reason |-> reason,
                           previous_price |-> mem[cur].last_notified_price,
                           outcome |-> outcome]>>
          /\ IF outcome = "ok"
             THEN /\ mem' = [mem EXCEPT ![cur].last_notified_price = Some(current_price)]
                  /\ pending' = Append(pending,
                        [table |-> "notification_logs",
                         row |-> [alert_id |-> cur, trigger_reason |-> reason,
                                  price |-> current_price]])
             ELSE UNCHANGED <<mem, pending>>
    /\ pc' = "commit"
    /\ UNCHANGED <<alerts, price_records, notification_logs, clock, batch, idx,
                   stats, result, decision, ncalls, last_call, hist, scraper, page, sched, smtp, alerts_config>>

\* process_alert, db_session.commit() succeeding: return True
CommitOk ==
    /\ pc = "commit"
    /\ UNCHANGED <<clock, batch, scraper, page, sched, smtp, alerts_config>>
    /\ Commit
    /\ Returned(TRUE, FALSE)

\* process_alert, db_session.commit() raising: the except branch
CommitRaises ==
    /\ pc = "commit"
    /\ UNCHANGED <<clock, batch, scraper, page, sched, smtp, alerts_config>>
    /\ Rollback
    /\ Returned(FALSE, FALSE)

\* process_all_alerts after the for loop: return the tally
ReturnStats ==
    /\ pc = "done"
    /\ pc' = "idle"
    /\ UNCHANGED <<alerts, price_records, notification_logs, mem, pending, clock,
                   batch, idx, stats, result, decision, sendres, ncalls, last_call, hist, scraper, page, sched, smtp, alerts_config>>

Next ==
    \/ ProcessAllAlerts
    \/ ScrapeRaises
    \/ \E r \in ScrapeResult : ScrapeReturns(r)
    \/ Store
    \/ Decide
    \/ \E o \in SendOutcome : _send_notification(o)
    \/ CommitOk
    \/ CommitRaises
    \/ ReturnStats

Spec == Init /\ [][Next]_vars

\* ------------------------------------------- the decision function on its own
\* process_alert at the call of _should_notify, for every alert row the store
\* can hold (any target, any last_notified_price) and every scraped price
InitDecide ==
    /\ alerts \in [AlertIds -> {[target_price |-> t, last_notified_price |-> l,
                                 last_checked |-> None, is_active |-> TRUE] :
                                 t \in Prices, l \in {None} \cup {Some(p) : p \in Prices}}]
    /\ price_records = <<>>
    /\ notification_logs = <<>>
    /\ clock = 1
    /\ batch = SortedSeq(AlertIds)
    /\ idx = 1
    /\ mem = [alerts EXCEPT ![1].last_checked = Some(clock)]
    /\ result \in {r \in ScrapeResult : ~IsNone(r.price)}
    /\ pending = <<[table |-> "price_records",
                    row |-> [alert_id |-> 1, price |-> Val(result.price),
                             availability |-> result.availability]]>>
    /\ pc = "decide"
    /\ stats = [total |-> NumAlerts, success |-> 0, failed |-> 0]
    /\ decision = <<FALSE, "">>
    /\ sendres = <<>>
    /\ ncalls = 0
    /\ last_call = NoCall
    /\ hist = [a \in AlertIds |-> NoHist]
    /\ scraper = NewScraper
    /\ page = NoPage
    /\ sched = NoSched
    /\ smtp = NewSmtp
    /\ alerts_config = <<>>

SpecDecide == InitDecide /\ [][Decide]_vars

\* ------------------------------------------- the scrape of one call in detail
\* The step from "scrape" to "store" of process_alert, taken apart:
\* get_scraper, `with scraper:` (__enter__ = start, __exit__ = stop) and
\* scrape_with_retry with its attempts, diagnostics and backoff.

\* the pages a source can show in this specification: one with a price below
\* every target, one without a price
SessionResults ==
    {[price |-> Some(1), availability |-> "available"],
     [price |-> None, availability |-> "unknown"]}

\* an exception raised by `kind` during attempt n (0: outside the attempts)
Raised(kind, n) == <<[kind |-> kind, attempt |-> n]>>

\* what a step of the scrape leaves alone
SessionStep ==
    UNCHANGED <<alerts, price_records, notification_logs, mem, pending, batch,
                idx, stats, decision, sendres, ncalls, last_call, hist, page, sched, smtp, alerts_config>>

RECURSIVE Pow2(_)
Pow2(n) == IF n = 0 THEN 1 ELSE 2 * Pow2(n - 1)

Min(a, b) == IF a < b THEN a ELSE b
Max(a, b) == IF a > b THEN a ELSE b

\* the backoff without its lower clamp
wait_exponential_unclamped(attempt_number) ==
    Min(WaitMultiplier * Pow2(attempt_number - 1), WaitMax)

\* tenacity wait_exponential(multiplier, min, max) after attempt_number
wait_exponential(attempt_number) ==
    Max(WaitMin, Min(WaitMultiplier * Pow2(attempt_number - 1), WaitMax))

\* get_scraper falling back to a scraper for a source it does not know
get_scraper_any_source(known) ==
    /\ pc = "scrape"
    /\ ncalls < MaxCalls
    /\ clock' = clock + 1
    /\ scraper' = [NewScraper EXCEPT
                      !.exc = IF known THEN <<>> ELSE Raised("config", 0)]
    /\ pc' = "start_playwright"
    /\ UNCHANGED result
    /\ SessionStep

\* process_alert: get_scraper(alert.source); an unknown source raises ValueError
get_scraper(known) ==
    /\ pc = "scrape"
    /\ ncalls < MaxCalls
    /\ clock' = clock + 1
    /\ scraper' = [NewScraper EXCEPT
                      !.exc = IF known THEN <<>> ELSE Raised("config", 0)]
    /\ pc' = IF known THEN "start_playwright" ELSE "except"
    /\ UNCHANGED result
    /\ SessionStep

\* start(): sync_playwright().start()
start_playwright(ok) ==
    /\ pc = "start_playwright"
    /\ scraper' = [scraper EXCEPT
                      !.starts = @ + 1,
                      !.playwright = IF ok THEN "open" ELSE @,
                      !.exc = IF ok THEN @ ELSE Raised("start", 0)]
    /\ pc' = IF ok THEN "start_browser" ELSE "except"
    /\ UNCHANGED <<result, clock>>
    /\ SessionStep

\* start(): playwright.chromium.launch(...)
start_browser(ok) ==
    /\ pc = "start_browser"
    /\ scraper' = [scraper EXCEPT
                      !.browser = IF ok THEN "open" ELSE @,
                      !.exc = IF ok THEN @ ELSE Raised("start", 0)]
    /\ pc' = IF ok THEN "start_page" ELSE "except"
    /\ UNCHANGED <<result, clock>>
    /\ SessionStep

\* start(): browser.new_context(...).new_page()
start_page(ok) ==
    /\ pc = "start_page"
    /\ scraper' = [scraper EXCEPT
                      !.page = IF ok THEN "open" ELSE @,
                      !.exc = IF ok THEN @ ELSE Raised("start", 0)]
    /\ pc' = IF ok THEN "start_init" ELSE "except"
    /\ UNCHANGED <<result, clock>>
    /\ SessionStep

\* start(): page.set_default_timeout, page.add_init_script; __enter__ returns
start_init(ok) ==
    /\ pc = "start_init"
    /\ scraper' = [scraper EXCEPT
                      !.exc = IF ok THEN @ ELSE Raised("start", 0)]
    /\ pc' = IF ok THEN "attempt" ELSE "except"
    /\ UNCHANGED <<result, clock>>
    /\ SessionStep

\* scrape_with_retry, one attempt: self.scrape(url) returns a result, which
\* scrape_with_retry returns; the with block is left
scrape_returns(r) ==
    /\ pc = "attempt"
    /\ scraper' = [scraper EXCEPT !.attempt = @ + 1]
    /\ result' = r
    /\ pc' = "stop_page"
    /\ UNCHANGED clock
    /\ SessionStep

\* scrape_with_retry, one attempt: self.scrape(url) raises; the except branch
scrape_raises ==
    /\ pc = "attempt"
    /\ scraper' = [scraper EXCEPT
                      !.attempt = @ + 1,
                      !.failed = @ + 1,
                      !.exc = Raised("scrape", scraper.attempt + 1)]
    /\ pc' = "save_screenshot"
    /\ UNCHANGED <<result, clock>>
    /\ SessionStep

\* scrape_with_retry, except branch: save_screenshot; an exception raised
\* here leaves the attempt in place of the scraping exception
save_screenshot(ok) ==
    /\ pc = "save_screenshot"
    /\ scraper' = [scraper EXCEPT
                      !.screenshots = IF ok THEN @ + 1 ELSE @,
                      !.exc = IF ok THEN @ ELSE Raised("screenshot", scraper.attempt)]
    /\ pc' = IF ok THEN "save_html" ELSE "retry"
    /\ UNCHANGED <<result, clock>>
    /\ SessionStep

\* scrape_with_retry, except branch: save_html, then `raise`
save_html(ok) ==
    /\ pc = "save_html"
    /\ scraper' = [scraper EXCEPT
                      !.dumps = IF ok THEN @ + 1 ELSE @,
                      !.exc = IF ok THEN @ ELSE Raised("html", scraper.attempt)]
    /\ pc' = "retry"
    /\ UNCHANGED <<result, clock>>
    /\ SessionStep

\* the retry decorator giving up one attempt later
retry_after_three ==
    /\ pc = "retry"
    /\ IF scraper.attempt <= MaxAttempts
       THEN /\ scraper' = [scraper EXCEPT
                              !.delays = Append(@, wait_exponential(scraper.attempt)),
                              !.exc = <<>>]
            /\ pc' = "attempt"
       ELSE /\ scraper' = [scraper EXCEPT !.surfaced = scraper.exc]
            /\ pc' = "stop_page"
    /\ UNCHANGED <<result, clock>>
    /\ SessionStep

\* the retry decorator after an attempt raised: before the third attempt,
\* sleep the backoff and call again; after it, re-raise its exception
\* (reraise=True) out of the with block
retry ==
    /\ pc = "retry"
    /\ IF scraper.attempt < MaxAttempts
       THEN /\ scraper' = [scraper EXCEPT
                              !.delays = Append(@, wait_exponential(scraper.attempt)),
                              !.exc = <<>>]
            /\ pc' = "attempt"
       ELSE /\ scraper' = [scraper EXCEPT !.surfaced = scraper.exc]
            /\ pc' = "stop_page"
    /\ UNCHANGED <<result, clock>>
    /\ SessionStep

\* __exit__ = stop(): page.close()
stop_page(ok) ==
    /\ pc = "stop_page"
    /\ scraper' = [scraper EXCEPT
                      !.stops = @ + 1,
                      !.page = IF ok THEN "closed" ELSE @,
                      !.exc = IF ok THEN @ ELSE Raised("stop", 0)]
    /\ pc' = IF ok THEN "stop_browser" ELSE "except"
    /\ UNCHANGED <<result, clock>>
    /\ SessionStep

\* stop(): browser.close()
stop_browser(ok) ==
    /\ pc = "stop_browser"
    /\ scraper' = [scraper EXCEPT
                      !.browser = IF ok THEN "closed" ELSE @,
                      !.exc = IF ok THEN @ ELSE Raised("stop", 0)]
    /\ pc' = IF ok THEN "stop_playwright" ELSE "except"
    /\ UNCHANGED <<result, clock>>
    /\ SessionStep

\* stop(): playwright.stop(); then the with statement is left, with the
\* result or with the exception in flight
stop_playwright(ok) ==
    /\ pc = "stop_playwright"
    /\ scraper' = [scraper EXCEPT
                      !.playwright = IF ok THEN "closed" ELSE @,
                      !.exc = IF ok THEN @ ELSE Raised("stop", 0)]
    /\ pc' = IF ok /\ scraper.exc = <<>> THEN "store" ELSE "except"
    /\ UNCHANGED <<result, clock>>
    /\ SessionStep

\* process_alert, the except branch for an exception of the scrape
process_alert_except ==
    /\ pc = "except"
    /\ UNCHANGED <<clock, batch, scraper, page, sched, smtp, alerts_config>>
    /\ Rollback
    /\ Returned(FALSE, TRUE)

NextSession ==
    \/ ProcessAllAlerts
    \/ \E known \in BOOLEAN : get_scraper(known)
    \/ \E ok \in BOOLEAN : start_playwright(ok)
    \/ \E ok \in BOOLEAN : start_browser(ok)
    \/ \E ok \in BOOLEAN : start_page(ok)
    \/ \E ok \in BOOLEAN : start_init(ok)
    \/ \E r \in SessionResults : scrape_returns(r)
    \/ scrape_raises
    \/ \E ok \in BOOLEAN : save_screenshot(ok)
    \/ \E ok \in BOOLEAN : save_html(ok)
    \/ retry
    \/ \E ok \in BOOLEAN : stop_page(ok)
    \/ \E ok \in BOOLEAN : stop_browser(ok)
    \/ \E ok \in BOOLEAN : stop_playwright(ok)
    \/ process_alert_except
    \/ Store
    \/ Decide
    \/ \E o \in SendOutcome : _send_notification(o)
    \/ CommitOk
    \/ CommitRaises
    \/ ReturnStats

SpecSession == Init /\ [][NextSession]_vars

\* ------------------------------------------------- the scrape of one page
Raise == [raised |-> TRUE]
Return(v) == [raised |-> FALSE, value |-> v]

\* CURRENCIES: the symbol of each currency code
CURRENCIES == [USD |-> "$", GBP |-> "£", EUR |-> "€"]

\* re.findall(currency_config.pattern, page_text): the digit groups of every
\* occurrence of the currency, in document order
findall(c, page_text) ==
    LET occ == SelectSeq(page_text, LAMBDA t : t.kind = "price" /\ t.currency = c)
    IN [i \in 1..Len(occ) |-> occ[i].groups]

\* float(price_str.replace(",", "")): the digit groups read as one number
RECURSIVE float(_)
float(groups) ==
    IF groups = <<>> THEN 0
    ELSE float(SubSeq(groups, 1, Len(groups) - 1)) * 1000 + groups[Len(groups)]

\* str.lower()
lower(page_text) ==
    [i \in 1..Len(page_text) |->
        IF page_text[i].kind = "phrase"
        THEN [page_text[i] EXCEPT !.upper = FALSE]
        ELSE page_text[i]]

\* indicator in page_text_lower
contains(page_text, indicator) ==
    \E i \in 1..Len(page_text) : page_text[i] = PhraseToken(indicator, FALSE)

\* price_matches[:10]
Take(s, n) == SubSeq(s, 1, Min(n, Len(s)))

DEFAULT_SOLD_OUT_INDICATORS ==
    {"sold out", "no tickets available", "event has passed", "event has ended",
     "unavailable", "no longer available", "no longer on sale"}

\* _get_page_text: the body text, or the markup when the text shows no
\* currency symbol
_get_page_text(pg) ==
    IF \E i \in 1..Len(pg.text) : pg.text[i].kind = "price"
    THEN pg.text
    ELSE pg.html

RECURSIVE _extract_price(_, _)
\* the extractor taking the earliest price on the page, whatever its currency
extract_price_document_order(page_text, currencies) ==
    LET listed == SelectSeq(page_text, LAMBDA t : t.kind = "price" /\
                      \E k \in 1..Len(currencies) : currencies[k] = t.currency)
    IN IF listed = <<>>
       THEN [price |-> None, currency |-> None, matches |-> <<>>]
       ELSE [price |-> Some(float(listed[1].groups)),
             currency |-> Some(listed[1].currency),
             matches |-> findall(listed[1].currency, page_text)]

\* _extract_price: the first currency of the list with a match wins
_extract_price(page_text, currencies) ==
    IF currencies = <<>>
    THEN [price |-> None, currency |-> None, matches |-> <<>>]
    ELSE LET currency_code == Head(currencies)
             price_matches == findall(currency_code, page_text)
         IN IF currency_code \notin DOMAIN CURRENCIES
            THEN _extract_price(page_text, Tail(currencies))
            ELSE IF price_matches # <<>>
            THEN [price |-> Some(float(price_matches[1])),
                  currency |-> Some(currency_code),
                  matches |-> price_matches]
            ELSE _extract_price(page_text, Tail(currencies))

\* _check_availability
_check_availability(page_text, price, indicators) ==
    IF \E indicator \in indicators : contains(lower(page_text), indicator)
    THEN "sold_out"
    ELSE IF ~IsNone(price) THEN "available" ELSE "unknown"

\* the symbol-prefixed matches kept for diagnostics
Prefixed(symbol, matches) ==
    [i \in 1..Len(matches) |-> [symbol |-> symbol, digits |-> matches[i]]]

\* _build_raw_data
_build_raw_data(price_matches, currency_code) ==
    IF price_matches # <<>> /\ ~IsNone(currency_code)
    THEN [price_text |-> Some(Prefixed(CURRENCIES[Val(currency_code)], price_matches)[1]),
          currency |-> currency_code,
          all_prices_found |->
              Some(Prefixed(CURRENCIES[Val(currency_code)], Take(price_matches, RawLimit))),
          error |-> FALSE]
    ELSE [price_text |-> None, currency |-> currency_code,
          all_prices_found |-> None, error |-> FALSE]

\* _scrape_price_page: navigate, read the text, extract, classify, build the
\* diagnostics (which reads the page title)
_scrape_price_page(pg, currencies, sold_out_indicators) ==
    IF pg.fails \in {"goto", "inner_text"} THEN Raise
    ELSE LET page_text == _get_page_text(pg)
             e == _extract_price(page_text, currencies)
             availability == _check_availability(page_text, e.price,
                                 IF sold_out_indicators # {} THEN sold_out_indicators
                                 ELSE DEFAULT_SOLD_OUT_INDICATORS)
         IN IF pg.fails = "title" THEN Raise
            ELSE Return([kind |-> "ScrapeResult", price |-> e.price,
                         availability |-> availability,
                         raw_data |-> _build_raw_data(e.matches, e.currency)])

\* TicketmasterScraper.scrape
TicketmasterScraper_scrape(pg) ==
    _scrape_price_page(pg, <<"USD", "GBP">>,
        {"sold out", "no tickets available", "event has passed", "unavailable"})

\* StubHubScraper.scrape: the inline extraction, returning a dict
StubHubScraper_scrape(pg) ==
    IF pg.fails = "goto" THEN Raise
    ELSE IF pg.fails = "inner_text"
    THEN Return([kind |-> "dict", price |-> None, availability |-> "error",
                 raw_data |-> [price_text |-> None, currency |-> None,
                               all_prices_found |-> None, error |-> TRUE]])
    ELSE LET page_text == pg.text
             usd == findall("USD", page_text)
             price_matches == IF usd # <<>> THEN usd ELSE findall("GBP", page_text)
             currency == IF usd # <<>> THEN "USD" ELSE "GBP"
             price == IF price_matches # <<>>
                      THEN Some(float(price_matches[1])) ELSE None
             sold_out == \E indicator \in {"sold out", "no tickets available",
                                           "event has ended", "no longer available"} :
                             contains(lower(page_text), indicator)
             availability == IF sold_out THEN "sold_out"
                             ELSE IF ~IsNone(price) THEN "available" ELSE "unknown"
             raw_data ==
                 IF price_matches # <<>>
                 THEN [price_text |-> Some(Prefixed(CURRENCIES[currency], price_matches)[1]),
                       currency |-> Some(currency),
                       all_prices_found |->
                           Some(Prefixed(CURRENCIES[currency], Take(price_matches, RawLimit))),
                       error |-> FALSE]
                 ELSE [price_text |-> None, currency |-> None,
                       all_prices_found |-> None, error |-> FALSE]
         IN IF pg.fails = "title"
            THEN Return([kind |-> "dict", price |-> price, availability |-> "error",
                         raw_data |-> [raw_data EXCEPT !.error = TRUE]])
            ELSE Return([kind |-> "dict", price |-> price,
                         availability |-> availability, raw_data |-> raw_data])

\* ViagogoScraper.scrape: the inline extraction, returning a dict
ViagogoScraper_scrape(pg) ==
    IF pg.fails = "goto" THEN Raise
    ELSE IF pg.fails = "inner_text"
    THEN Return([kind |-> "dict", price |-> None, availability |-> "error",
                 raw_data |-> [price_text |-> None, currency |-> None,
                               all_prices_found |-> None, error |-> TRUE]])
    ELSE LET page_text == pg.text
             usd == findall("USD", page_text)
             gbp == findall("GBP", page_text)
             price_matches == IF usd # <<>> THEN usd
                              ELSE IF gbp # <<>> THEN gbp
                              ELSE findall("EUR", page_text)
             currency == IF usd # <<>> THEN "USD"
                         ELSE IF gbp # <<>> THEN "GBP" ELSE "EUR"
             price == IF price_matches # <<>>
                      THEN Some(float(price_matches[1])) ELSE None
             sold_out == \E indicator \in {"sold out", "no tickets available",
                                           "event has ended", "no longer on sale"} :
                             contains(lower(page_text), indicator)
             availability == IF sold_out THEN "sold_out"
                             ELSE IF ~IsNone(price) THEN "available" ELSE "unknown"
             raw_data ==
                 IF price_matches # <<>>
                 THEN [price_text |-> Some(Prefixed(CURRENCIES[currency], price_matches)[1]),
                       currency |-> Some(currency),
                       all_prices_found |->
                           Some(Prefixed(CURRENCIES[currency], Take(price_matches, RawLimit))),
                       error |-> FALSE]
                 ELSE [price_text |-> None, currency |-> None,
                       all_prices_found |-> None, error |-> FALSE]
         IN IF pg.fails = "title"
            THEN Return([kind |-> "dict", price |-> price, availability |-> "error",
                         raw_data |-> [raw_data EXCEPT !.error = TRUE]])
            ELSE Return([kind |-> "dict", price |-> price,
                         availability |-> availability, raw_data |-> raw_data])

\* get_scraper(alert.source) and the scrape method of the class it picks
scrape(pg) ==
    CASE pg.source = "ticketmaster" -> TicketmasterScraper_scrape(pg)
      [] pg.source = "stubhub" -> StubHubScraper_scrape(pg)
      [] pg.source = "viagogo" -> ViagogoScraper_scrape(pg)

\* process_alert: the with block; the page is the same on every attempt, so a
\* scrape that raises does so on each of them and the last exception leaves
\* the block
process_alert_scrape ==
    /\ pc = "scrape"
    /\ clock' = clock + 1
    /\ LET r == scrape(page)
       IN IF r.raised
          THEN /\ pc' = "except"
               /\ result' = result
          ELSE /\ pc' = "read"
               /\ result' = r.value
    /\ UNCHANGED scraper
    /\ SessionStep

\* process_alert: result.price, result.availability, _raw_data_to_dict(result);
\* a dict has no such attributes
read_result ==
    /\ pc = "read"
    /\ pc' = IF result.kind = "ScrapeResult" THEN "store" ELSE "except"
    /\ UNCHANGED <<clock, result, scraper>>
    /\ SessionStep

\* the first call of a pass over one active alert, on any page
InitScrape ==
    /\ alerts = [a \in AlertIds |->
                    [target_price |-> MaxPrice - ((a + 1) % 2),
                     last_notified_price |-> None, last_checked |-> None,
                     is_active |-> (a = 1)]]
    /\ price_records = <<>>
    /\ notification_logs = <<>>
    /\ mem = alerts
    /\ pending = <<>>
    /\ clock = 0
    /\ pc = "scrape"
    /\ batch = <<1>>
    /\ idx = 1
    /\ stats = [total |-> 1, success |-> 0, failed |-> 0]
    /\ result = NoResult
    /\ decision = <<FALSE, "">>
    /\ sendres = <<>>
    /\ ncalls = 0
    /\ last_call = NoCall
    /\ hist = [a \in AlertIds |-> NoHist]
    /\ scraper = NewScraper
    /\ page \in Pages
    /\ sched = NoSched
    /\ smtp = NewSmtp
    /\ alerts_config = <<>>

NextScrape ==
    \/ process_alert_scrape
    \/ read_result
    \/ Store
    \/ Decide
    \/ \E outcome \in SendOutcome : _send_notification(outcome)
    \/ CommitOk
    \/ CommitRaises
    \/ process_alert_except
    \/ ReturnStats

SpecScrape == InitScrape /\ [][NextScrape]_vars

\* ------------------------------------------------------------ the scheduler
Threads == {"caller", "worker"}

SchedStep ==
    UNCHANGED <<alerts, price_records, notification_logs, mem, pending, clock, pc,
                batch, idx, stats, result, decision, sendres, ncalls, last_call,
                hist, scraper, page, smtp, alerts_config>>

\* random.uniform(0, self.jitter_minutes * 60), in half minutes
JitterSeconds(jitter_minutes) == {30 * k : k \in 0..(2 * jitter_minutes)}

\* a client calls AlertScheduler.start()
call_start ==
    /\ sched.at.caller = "idle"
    /\ sched.npass < MaxPasses
    /\ sched' = [sched EXCEPT !.at.caller = "add_job", !.npass = @ + 1]
    /\ SchedStep

\* start: scheduler.add_job(..., id=self.job_id, replace_existing=True)
add_job ==
    /\ sched.at.caller = "add_job"
    /\ sched' = [sched EXCEPT !.job = TRUE, !.at.caller = "scheduler_start"]
    /\ SchedStep

\* start going through _process_with_jitter for its first pass
scheduler_start_jittered ==
    /\ sched.at.caller = "scheduler_start"
    /\ IF sched.running
       THEN sched' = [sched EXCEPT !.at.caller = "idle", !.last = "start_raised"]
       ELSE \E d \in JitterSeconds(sched.jitter_minutes) :
                sched' = [sched EXCEPT !.running = TRUE,
                                       !.at.caller = "pass",
                                       !.sleeps.caller = <<d>>,
                                       !.left.caller = Cardinality(ActiveAlerts)]
    /\ SchedStep

\* start: scheduler.start(), which raises on a scheduler already running, and
\* then the call of process_all_alerts on the calling thread
scheduler_start ==
    /\ sched.at.caller = "scheduler_start"
    /\ IF sched.running
       THEN sched' = [sched EXCEPT !.at.caller = "idle", !.last = "start_raised"]
       ELSE sched' = [sched EXCEPT !.running = TRUE,
                                   !.at.caller = "pass",
                                   !.sleeps.caller = <<>>,
                                   !.left.caller = Cardinality(ActiveAlerts)]
    /\ SchedStep

\* the interval trigger fires: the job is handed to the pool unless an
\* instance of it is still running; _process_with_jitter up to its sleep
trigger_fires ==
    /\ sched.running /\ sched.job
    /\ sched.at.worker = "idle"
    /\ sched.at.caller \notin {"exited", "ended"}
    /\ sched.npass < MaxPasses
    /\ IF sched.jitter_minutes > 0
       THEN \E d \in JitterSeconds(sched.jitter_minutes) :
                sched' = [sched EXCEPT !.at.worker = "sleeping",
                                       !.sleeps.worker = <<d>>,
                                       !.npass = @ + 1]
       ELSE sched' = [sched EXCEPT !.at.worker = "slept",
                                   !.sleeps.worker = <<>>,
                                   !.npass = @ + 1]
    /\ SchedStep

\* _process_with_jitter: time.sleep(jitter_seconds) returns
sleep_ends ==
    /\ sched.at.worker = "sleeping"
    /\ sched' = [sched EXCEPT !.at.worker = "slept"]
    /\ SchedStep

\* _process_with_jitter: the call of process_all_alerts
periodic_pass ==
    /\ sched.at.worker = "slept"
    /\ sched' = [sched EXCEPT !.at.worker = "pass",
                              !.left.worker = Cardinality(ActiveAlerts)]
    /\ SchedStep

\* process_all_alerts on thread t: the next alert's scrape begins; until it
\* ends the thread is in a navigation wait, a render-settle delay or a
\* backoff sleep
scrape_begins(t) ==
    /\ sched.at[t] = "pass"
    /\ sched.left[t] > 0
    /\ sched' = [sched EXCEPT !.at[t] = "scrape"]
    /\ SchedStep

\* process_all_alerts on thread t: the alert's processing is over
scrape_ends(t) ==
    /\ sched.at[t] = "scrape"
    /\ sched' = [sched EXCEPT !.at[t] = "pass", !.left[t] = @ - 1]
    /\ SchedStep

\* process_all_alerts returns on thread t: start returns to its caller, the
\* job instance is over
pass_ends(t) ==
    /\ sched.at[t] = "pass"
    /\ sched.left[t] = 0
    /\ sched' = [sched EXCEPT !.at[t] = "idle",
                              !.sleeps[t] = <<>>,
                              !.last = IF t = "caller" THEN "start" ELSE @]
    /\ SchedStep

\* stop: if self.scheduler.running: the shutdown marks the scheduler stopped
call_stop ==
    /\ sched.at.caller = "idle"
    /\ IF sched.running
       THEN sched' = [sched EXCEPT !.running = FALSE, !.at.caller = "shutdown"]
       ELSE sched' = [sched EXCEPT !.last = "stop_noop"]
    /\ SchedStep

\* stop returning without waiting for the job instance
shutdown_no_wait ==
    /\ sched.at.caller = "shutdown"
    /\ sched' = [sched EXCEPT !.job = FALSE, !.at.caller = "idle", !.last = "stop"]
    /\ SchedStep

\* stop: scheduler.shutdown(wait=True) returns once the pool has no running
\* job instance; the job store is emptied
shutdown ==
    /\ sched.at.caller = "shutdown"
    /\ sched.at.worker = "idle"
    /\ sched' = [sched EXCEPT !.job = FALSE, !.at.caller = "idle", !.last = "stop"]
    /\ SchedStep

InitScheduler ==
    /\ alerts \in [AlertIds -> {[target_price |-> t, last_notified_price |-> None,
                                 last_checked |-> None, is_active |-> act] :
                                 t \in TargetPrices, act \in BOOLEAN}]
    /\ \A a \in AlertIds : alerts[a].target_price = MaxPrice - ((a + 1) % 2)
    /\ price_records = <<>>
    /\ notification_logs = <<>>
    /\ mem = alerts
    /\ pending = <<>>
    /\ clock = 0
    /\ pc = "idle"
    /\ batch = <<>>
    /\ idx = 0
    /\ stats = [total |-> 0, success |-> 0, failed |-> 0]
    /\ result = NoResult
    /\ decision = <<FALSE, "">>
    /\ sendres = <<>>
    /\ ncalls = 0
    /\ last_call = NoCall
    /\ hist = [a \in AlertIds |-> NoHist]
    /\ scraper = NewScraper
    /\ page = NoPage
    /\ sched \in {NewSched(j) : j \in 0..MaxJitter}
    /\ smtp = NewSmtp
    /\ alerts_config = <<>>

NextScheduler ==
    \/ call_start
    \/ add_job
    \/ scheduler_start
    \/ trigger_fires
    \/ sleep_ends
    \/ periodic_pass
    \/ \E t \in Threads : scrape_begins(t)
    \/ \E t \in Threads : scrape_ends(t)
    \/ \E t \in Threads : pass_ends(t)
    \/ call_stop
    \/ shutdown

SpecScheduler == InitScheduler /\ [][NextScheduler]_vars

\* ------------------------------------------------------------------ main
\* AlertScheduler.__init__: jitter_minutes: int = 2, which main does not override
DefaultJitter == 2

\* main: scheduler.start(), called once, on the main thread
main_start ==
    /\ sched.at.caller = "idle"
    /\ sched.last = "none"
    /\ sched' = [sched EXCEPT !.at.caller = "add_job", !.npass = @ + 1]
    /\ SchedStep

\* signal_handler: SIGINT or SIGTERM is delivered to the main thread wherever
\* it is, and sys.exit(0) raises SystemExit there; nothing on the way out
\* catches it (process_alert and main catch Exception only)
signal_handler ==
    /\ sched.at.caller \notin {"exited", "ended"}
    /\ sched' = [sched EXCEPT !.at.caller = "exited",
                              !.aborted = IF sched.at.caller = "scrape" THEN "scrape"
                                          ELSE IF sched.at.caller = "pass" /\
                                                  sched.left.caller > 0 THEN "pass"
                                          ELSE "none"]
    /\ SchedStep

\* interpreter exit: the pool thread is joined, so a job instance in flight
\* runs to its end; the scheduler itself is never shut down
exit_process ==
    /\ sched.at.caller = "exited"
    /\ sched.at.worker = "idle"
    /\ sched' = [sched EXCEPT !.at.caller = "ended"]
    /\ SchedStep

\* main after the handlers are installed, about to call scheduler.start()
InitMain ==
    /\ alerts \in [AlertIds -> {[target_price |-> t, last_notified_price |-> None,
                                 last_checked |-> None, is_active |-> act] :
                                 t \in TargetPrices, act \in BOOLEAN}]
    /\ \A a \in AlertIds : alerts[a].target_price = MaxPrice - ((a + 1) % 2)
    /\ price_records = <<>>
    /\ notification_logs = <<>>
    /\ mem = alerts
    /\ pending = <<>>
    /\ clock = 0
    /\ pc = "idle"
    /\ batch = <<>>
    /\ idx = 0
    /\ stats = [total |-> 0, success |-> 0, failed |-> 0]
    /\ result = NoResult
    /\ decision = <<FALSE, "">>
    /\ sendres = <<>>
    /\ ncalls = 0
    /\ last_call = NoCall
    /\ hist = [a \in AlertIds |-> NoHist]
    /\ scraper = NewScraper
    /\ page = NoPage
    /\ sched = NewSched(DefaultJitter)
    /\ smtp = NewSmtp
    /\ alerts_config = <<>>

NextMain ==
    \/ main_start
    \/ add_job
    \/ scheduler_start
    \/ trigger_fires
    \/ sleep_ends
    \/ periodic_pass
    \/ \E t \in Threads : scrape_begins(t)
    \/ \E t \in Threads : scrape_ends(t)
    \/ \E t \in Threads : pass_ends(t)
    \/ signal_handler
    \/ exit_process

SpecMain == InitMain /\ [][NextMain]_vars

\* ------------------------------------------------- send_notification in detail
NotifyStep ==
    UNCHANGED <<alerts, price_records, notification_logs, mem, pending, clock, pc,
                batch, idx, stats, result, decision, sendres, ncalls, last_call,
                hist, scraper, page, sched, alerts_config>>

\* a step of the SMTP session that raises: the except clause returns False
Failed(step) ==
    [smtp EXCEPT !.at = "returned", !.ret = FALSE, !.failed = step]

\* send_notification up to the with statement: the message is composed
send_notification ==
    /\ pc = "send"
    /\ smtp.call # ncalls + 1
    /\ smtp' = [NewSmtp EXCEPT !.at = "connect", !.call = ncalls + 1]
    /\ NotifyStep

\* smtplib.SMTP(self.smtp_host, self.smtp_port)
smtp_connect(ok) ==
    /\ smtp.at = "connect"
    /\ smtp' = IF ok THEN [smtp EXCEPT !.at = "starttls"] ELSE Failed("connect")
    /\ NotifyStep

\* server.starttls()
starttls(ok) ==
    /\ smtp.at = "starttls"
    /\ smtp' = IF ok THEN [smtp EXCEPT !.at = "login"] ELSE Failed("starttls")
    /\ NotifyStep

\* server.login(self.sender_email, self.sender_password)
login(ok) ==
    /\ smtp.at = "login"
    /\ smtp' = IF ok THEN [smtp EXCEPT !.at = "send_message"] ELSE Failed("login")
    /\ NotifyStep

\* server.send_message(msg)
send_message(ok) ==
    /\ smtp.at = "send_message"
    /\ smtp' = IF ok THEN [smtp EXCEPT !.at = "quit", !.handed = TRUE]
               ELSE Failed("send_message")
    /\ NotifyStep

\* the end of the with block: SMTP.__exit__ issues QUIT and raises
\* SMTPResponseException on a reply other than 221, inside the try; then
\* return True
smtp_quit(ok) ==
    /\ smtp.at = "quit"
    /\ smtp' = IF ok THEN [smtp EXCEPT !.at = "returned", !.ret = TRUE]
               ELSE Failed("quit")
    /\ NotifyStep

\* _send_notification with the value send_notification returned
notifier_returns ==
    /\ smtp.at = "returned"
    /\ smtp.call = ncalls + 1
    /\ _send_notification(IF smtp.ret THEN "ok" ELSE "false")

\* the first call of a pass over one active alert
InitNotify ==
    /\ alerts = [a \in AlertIds |->
                    [target_price |-> MaxPrice - ((a + 1) % 2),
                     last_notified_price |-> None, last_checked |-> None,
                     is_active |-> (a = 1)]]
    /\ price_records = <<>>
    /\ notification_logs = <<>>
    /\ mem = alerts
    /\ pending = <<>>
    /\ clock = 0
    /\ pc = "scrape"
    /\ batch = <<1>>
    /\ idx = 1
    /\ stats = [total |-> 1, success |-> 0, failed |-> 0]
    /\ result = NoResult
    /\ decision = <<FALSE, "">>
    /\ sendres = <<>>
    /\ ncalls = 0
    /\ last_call = NoCall
    /\ hist = [a \in AlertIds |-> NoHist]
    /\ scraper = NewScraper
    /\ page = NoPage
    /\ sched = NoSched
    /\ smtp = NewSmtp
    /\ alerts_config = <<>>

NextNotify ==
    \/ ScrapeRaises
    \/ \E r \in ScrapeResult : ScrapeReturns(r)
    \/ Store
    \/ Decide
    \/ send_notification
    \/ \E ok \in BOOLEAN : smtp_connect(ok)
    \/ \E ok \in BOOLEAN : starttls(ok)
    \/ \E ok \in BOOLEAN : login(ok)
    \/ \E ok \in BOOLEAN : send_message(ok)
    \/ \E ok \in BOOLEAN : smtp_quit(ok)
    \/ notifier_returns
    \/ CommitOk
    \/ CommitRaises
    \/ ReturnStats

SpecNotify == InitNotify /\ [][NextNotify]_vars

\* ---------------------------------------------------------------- config sync
MaxConfig == 2

AlertNames == {"a", "b"}

\* the values alerts.yaml may give as target_price
ConfigTargets == (0 - 1)..MaxPrice

\* an entry of alerts.yaml; None stands for a key that is missing
AlertData ==
    [name : {None} \cup {Some(n) : n \in AlertNames},
     target_price : {None} \cup {Some(t) : t \in ConfigTargets},
     active : {None} \cup {Some(b) : b \in BOOLEAN}]

SyncStep ==
    UNCHANGED <<price_records, notification_logs, pending, clock, batch, stats,
                result, decision, sendres, ncalls, last_call, hist, scraper, page,
                sched, smtp, alerts_config>>

\* alert_data.get(key, default)
get(field, default) == IF IsNone(field) THEN default ELSE Val(field)

\* sync_alerts_to_db, one turn of the for loop on the session's view of the
\* table; a new Alert without target_price violates nullable=False when the
\* session is flushed, and the exception leaves sync_alerts_to_db
sync_alert(alert_data) ==
    /\ pc = "sync"
    /\ idx < MaxConfig
    /\ idx' = idx + 1
    /\ alerts' = alerts
    /\ IF IsNone(alert_data.name)
       THEN /\ mem' = mem
            /\ pc' = pc
       ELSE LET name == Val(alert_data.name)
                found == {i \in 1..Len(mem) : mem[i].name = name}
            IN IF found # {}
               THEN LET existing == CHOOSE i \in found : \A j \in found : i <= j
                    IN /\ mem' = [mem EXCEPT
                              ![existing].target_price =
                                  get(alert_data.target_price, @),
                              ![existing].is_active = get(alert_data.active, @)]
                       /\ pc' = pc
               ELSE IF IsNone(alert_data.target_price)
               THEN /\ mem' = alerts
                    /\ pc' = "sync_failed"
               ELSE /\ mem' = Append(mem,
                          [name |-> name,
                           target_price |-> Val(alert_data.target_price),
                           last_notified_price |-> None,
                           last_checked |-> None,
                           is_active |-> get(alert_data.active, TRUE)])
                    /\ pc' = pc
    /\ SyncStep

\* sync_alerts_to_db: db_session.commit()
sync_commit(ok) ==
    /\ pc = "sync"
    /\ IF ok
       THEN /\ alerts' = mem
            /\ mem' = mem
            /\ pc' = "synced"
       ELSE /\ alerts' = alerts
            /\ mem' = alerts
            /\ pc' = "sync_failed"
    /\ UNCHANGED idx
    /\ SyncStep

\* main is run again on the same database, with whatever alerts.yaml then holds
main_sync ==
    /\ pc \in {"synced", "sync_failed"}
    /\ pc' = "sync"
    /\ idx' = 0
    /\ UNCHANGED <<alerts, mem>>
    /\ SyncStep

\* main at its call of sync_alerts_to_db on a database init_db has just created
InitSync ==
    /\ alerts = <<>>
    /\ price_records = <<>>
    /\ notification_logs = <<>>
    /\ mem = <<>>
    /\ pending = <<>>
    /\ clock = 0
    /\ pc = "sync"
    /\ batch = <<>>
    /\ idx = 0
    /\ stats = [total |-> 0, success |-> 0, failed |-> 0]
    /\ result = NoResult
    /\ decision = <<FALSE, "">>
    /\ sendres = <<>>
    /\ ncalls = 0
    /\ last_call = NoCall
    /\ hist = [a \in AlertIds |-> NoHist]
    /\ scraper = NewScraper
    /\ page = NoPage
    /\ sched = NoSched
    /\ smtp = NewSmtp
    /\ alerts_config = <<>>

NextSync ==
    \/ \E alert_data \in AlertData : sync_alert(alert_data)
    \/ \E ok \in BOOLEAN : sync_commit(ok)
    \/ main_sync

SpecSync == InitSync /\ [][NextSync]_vars

\* ------------------------------------------ sync_alerts_to_db as a function
\* the files alerts.yaml can be: up to MaxConfig entries
Configs == UNION {[1..n -> AlertData] : n \in 0..MaxConfig}

\* databases left by earlier runs: none; one alert, notified and checked;
\* that alert and a second, inactive one never processed
Databases ==
    LET a == [name |-> "a", target_price |-> MaxPrice,
              last_notified_price |-> Some(1), last_checked |-> Some(1),
              is_active |-> TRUE]
        b == [name |-> "b", target_price |-> MaxPrice - 1,
              last_notified_price |-> None, last_checked |-> None,
              is_active |-> FALSE]
    IN {<<>>, <<a>>, <<a, b>>}

\* the loop body also clearing what the processing loop wrote on the alert
apply_alert_resets_notified(session, alert_data) ==
    IF session.failed \/ IsNone(alert_data.name) THEN session
    ELSE LET name == Val(alert_data.name)
             found == {i \in 1..Len(session.store) : session.store[i].name = name}
         IN IF found # {}
            THEN LET existing == CHOOSE i \in found : \A j \in found : i <= j
                 IN [session EXCEPT
                        !.store[existing].target_price =
                            get(alert_data.target_price, @),
                        !.store[existing].is_active = get(alert_data.active, @),
                        !.store[existing].last_notified_price = None]
            ELSE IF IsNone(alert_data.target_price)
            THEN [session EXCEPT !.failed = TRUE]
            ELSE [session EXCEPT !.store = Append(@,
                     [name |-> name,
                      target_price |-> Val(alert_data.target_price),
                      last_notified_price |-> None,
                      last_checked |-> None,
                      is_active |-> get(alert_data.active, TRUE)])]

\* sync_alerts_to_db, the body of the for loop, on the session's view of the
\* table: skip a nameless entry, update the alert of that name or add a new
\* one; failed: the flush of a new Alert without target_price has raised
apply_alert(session, alert_data) ==
    IF session.failed \/ IsNone(alert_data.name) THEN session
    ELSE LET name == Val(alert_data.name)
             found == {i \in 1..Len(session.store) : session.store[i].name = name}
         IN IF found # {}
            THEN LET existing == CHOOSE i \in found : \A j \in found : i <= j
                 IN [session EXCEPT
                        !.store[existing].target_price =
                            get(alert_data.target_price, @),
                        !.store[existing].is_active = get(alert_data.active, @)]
            ELSE IF IsNone(alert_data.target_price)
            THEN [session EXCEPT !.failed = TRUE]
            ELSE [session EXCEPT !.store = Append(@,
                     [name |-> name,
                      target_price |-> Val(alert_data.target_price),
                      last_notified_price |-> None,
                      last_checked |-> None,
                      is_active |-> get(alert_data.active, TRUE)])]

\* sync_alerts_to_db, the for loop over the entries
RECURSIVE apply_config(_, _)
apply_config(session, config) ==
    IF config = <<>> THEN session
    ELSE apply_config(apply_alert(session, Head(config)), Tail(config))

\* sync_alerts_to_db(alerts_config, db_session): the loop and the commit; when
\* the flush or the commit raises nothing is written and main exits
sync_alerts_to_db(ok) ==
    /\ pc = "sync"
    /\ LET session == apply_config([store |-> alerts, failed |-> FALSE], alerts_config)
       IN IF ok /\ ~session.failed
          THEN /\ alerts' = session.store
               /\ pc' = "synced"
          ELSE /\ alerts' = alerts
               /\ pc' = "sync_failed"
    /\ mem' = alerts'
    /\ UNCHANGED idx
    /\ SyncStep

\* main at its call of sync_alerts_to_db, on any database and any alerts.yaml
InitConfig ==
    /\ alerts \in Databases
    /\ price_records =
           IF alerts = <<>> THEN <<>>
           ELSE <<[alert_id |-> 1, price |-> 1, availability |-> "available"]>>
    /\ notification_logs =
           IF alerts = <<>> THEN <<>>
           ELSE <<[alert_id |-> 1, trigger_reason |-> "first_time", price |-> 1]>>
    /\ mem = alerts
    /\ pending = <<>>
    /\ clock = 1
    /\ pc = "sync"
    /\ batch = <<>>
    /\ idx = 0
    /\ stats = [total |-> 0, success |-> 0, failed |-> 0]
    /\ result = NoResult
    /\ decision = <<FALSE, "">>
    /\ sendres = <<>>
    /\ ncalls = 0
    /\ last_call = NoCall
    /\ hist = [a \in AlertIds |-> NoHist]
    /\ scraper = NewScraper
    /\ page = NoPage
    /\ sched = NoSched
    /\ smtp = NewSmtp
    /\ alerts_config \in Configs

NextConfig ==
    \/ \E ok \in BOOLEAN : sync_alerts_to_db(ok)
    \/ main_sync

SpecConfig == InitConfig /\ [][NextConfig]_vars

\* ------------------------------------- runs of main: sync, then processing
\* what alerts.yaml holds at one run of main: one alert, whose target_price
\* is edited between runs
LifeConfigs ==
    {<<alert_data>> : alert_data \in
        {d \in AlertData : d.name = Some("a") /\ d.active = None}}

\* process_alert notifying on every priced scrape, without the decision
process_alert_undecided(i, r, sent, committed) ==
    /\ pc = "synced"
    /\ ncalls < MaxCalls
    /\ i \in 1..Len(alerts)
    /\ alerts[i].is_active
    /\ LET priced == ~IsNone(r.price)
           d == IF priced THEN <<TRUE, "first_time">> ELSE <<FALSE, "">>
           notified == d[1] /\ sent
       IN IF committed
          THEN /\ alerts' = [alerts EXCEPT
                      ![i].last_checked = Some(clock + 1),
                      ![i].last_notified_price =
                          IF notified THEN Some(Val(r.price)) ELSE @]
               /\ price_records' =
                      IF priced
                      THEN Append(price_records,
                               [alert_id |-> i, price |-> Val(r.price),
                                availability |-> r.availability])
                      ELSE price_records
               /\ notification_logs' =
                      IF notified
                      THEN Append(notification_logs,
                               [alert_id |-> i, trigger_reason |-> d[2],
                                price |-> Val(r.price)])
                      ELSE notification_logs
          ELSE UNCHANGED <<alerts, price_records, notification_logs>>
    /\ mem' = alerts'
    /\ clock' = clock + 1
    /\ ncalls' = ncalls + 1
    /\ UNCHANGED <<pending, pc, batch, idx, stats, result, decision, sendres,
                   last_call, hist, scraper, page, sched, smtp, alerts_config>>

\* process_alert as one step: a call that commits writes the stamp, the
\* PriceRecord of a priced scrape and, when _should_notify says so and the
\* notifier returns True, the NotificationLog and the new
\* last_notified_price; a call that is rolled back writes nothing
process_alert(i, r, sent, committed) ==
    /\ pc = "synced"
    /\ ncalls < MaxCalls
    /\ i \in 1..Len(alerts)
    /\ alerts[i].is_active
    /\ LET priced == ~IsNone(r.price)
           d == IF priced THEN _should_notify(alerts[i], Val(r.price))
                ELSE <<FALSE, "">>
           notified == d[1] /\ sent
       IN IF committed
          THEN /\ alerts' = [alerts EXCEPT
                      ![i].last_checked = Some(clock + 1),
                      ![i].last_notified_price =
                          IF notified THEN Some(Val(r.price)) ELSE @]
               /\ price_records' =
                      IF priced
                      THEN Append(price_records,
                               [alert_id |-> i, price |-> Val(r.price),
                                availability |-> r.availability])
                      ELSE price_records
               /\ notification_logs' =
                      IF notified
                      THEN Append(notification_logs,
                               [alert_id |-> i, trigger_reason |-> d[2],
                                price |-> Val(r.price)])
                      ELSE notification_logs
          ELSE UNCHANGED <<alerts, price_records, notification_logs>>
    /\ mem' = alerts'
    /\ clock' = clock + 1
    /\ ncalls' = ncalls + 1
    /\ UNCHANGED <<pending, pc, batch, idx, stats, result, decision, sendres,
                   last_call, hist, scraper, page, sched, smtp, alerts_config>>

\* main is run again on the same database after alerts.yaml was edited
main_restart ==
    /\ pc \in {"synced", "sync_failed"}
    /\ pc' = "sync"
    /\ alerts_config' \in LifeConfigs
    /\ UNCHANGED <<alerts, price_records, notification_logs, mem, pending,
                   clock, batch, idx, stats, result, decision, sendres, ncalls,
                   last_call, hist, scraper, page, sched, smtp>>

\* main at its call of sync_alerts_to_db on a database init_db has just created
InitLife ==
    /\ alerts = <<>>
    /\ price_records = <<>>
    /\ notification_logs = <<>>
    /\ mem = <<>>
    /\ pending = <<>>
    /\ clock = 0
    /\ pc = "sync"
    /\ batch = <<>>
    /\ idx = 0
    /\ stats = [total |-> 0, success |-> 0, failed |-> 0]
    /\ result = NoResult
    /\ decision = <<FALSE, "">>
    /\ sendres = <<>>
    /\ ncalls = 0
    /\ last_call = NoCall
    /\ hist = [a \in AlertIds |-> NoHist]
    /\ scraper = NewScraper
    /\ page = NoPage
    /\ sched = NoSched
    /\ smtp = NewSmtp
    /\ alerts_config \in LifeConfigs

NextLife ==
    \/ \E ok \in BOOLEAN : sync_alerts_to_db(ok)
    \/ main_restart
    \/ \E i \in 1..Cardinality(AlertNames), r \in ScrapeResult,
          sent \in BOOLEAN, committed \in BOOLEAN :
           process_alert(i, r, sent, committed)

SpecLife == InitLife /\ [][NextLife]_vars

\* ---------------------------------------------------------------- history
\* a process_alert call finishes in this step
CallEnds == ncalls' # ncalls

\* the call sent a notification: the notifier was called and reported success
Notified(c) == c.sent # <<>> /\ c.sent[1].outcome = "ok"

\* the call's scrape returned a price
Priced(c) == ~c.raised /\ ~IsNone(c.price)

LogsOf(a) == SelectSeq(notification_logs, LAMBDA n : n.alert_id = a)
RecordsOf(a) == SelectSeq(price_records, LAMBDA r : r.alert_id = a)

\* the notification law for a call c observing a price, given the price of
\* the most recent earlier notification sent for the alert
Law(c, T, last_sent) ==
    Notified(c) <=>
        /\ Val(c.price) < T
        /\ (IsNone(last_sent) \/ Val(c.price) < Val(last_sent))

\* ----------------------------------------------------------------- claims

Decided(target, last, current) ==
    CASE current >= target -> <<FALSE, "">>
      [] current < target /\ IsNone(last) -> <<TRUE, "first_time">>
      [] current < target /\ ~IsNone(last) /\ current < Val(last) -> <<TRUE, "price_drop">>
      [] OTHER -> <<FALSE, "">>

\* C2: _should_notify returns (false, "") when current >= target, else
\* (true, first_time) when last_notified_price is absent, else (true,
\* price_drop) when current < last_notified_price, else (false, ""); the call
\* changes neither the alert nor the store.
C2_DecisionIsPure ==
    [][pc = "decide" =>
         /\ decision' = Decided(mem[cur].target_price, mem[cur].last_notified_price,
                                Val(result.price))
         /\ mem' = mem /\ alerts' = alerts /\ pending' = pending
         /\ price_records' = price_records
         /\ notification_logs' = notification_logs]_vars

\* the decision was taken for a price below the target that is no drop from a
\* present last_notified_price (case 4)
C2_Witness ==
    /\ pc = "commit"
    /\ ~IsNone(result.price)
    /\ ~IsNone(mem[cur].last_notified_price)
    /\ Val(result.price) < mem[cur].target_price
    /\ Val(result.price) >= Val(mem[cur].last_notified_price)
    /\ decision = <<FALSE, "">>

\* C3: a call that observes a price equal to the alert's current
\* last_notified_price decides not to notify, does not call the notifier and
\* adds no NotificationLog row, also when the price rose in between.
C3_IdempotentRecheck ==
    [][/\ (pc = "decide" /\ result.price = mem[cur].last_notified_price)
            => ~decision'[1]
       /\ (CallEnds /\ ~IsNone(result.price)
             /\ result.price = alerts[cur].last_notified_price)
            => /\ sendres = <<>>
               /\ notification_logs' = notification_logs
               /\ alerts'[cur].last_notified_price = alerts[cur].last_notified_price]_vars

\* an alert notified at v, then seen above v, then seen at v again without a
\* further notification
C3_Witness ==
    \E a \in AlertIds :
        /\ hist[a].calls = 3 /\ hist[a].committed = 3
        /\ Len(RecordsOf(a)) = 3 /\ Len(LogsOf(a)) = 1
        /\ LogsOf(a)[1].price = RecordsOf(a)[1].price
        /\ RecordsOf(a)[2].price > RecordsOf(a)[1].price
        /\ RecordsOf(a)[3].price = RecordsOf(a)[1].price
        /\ alerts[a].last_notified_price = Some(RecordsOf(a)[3].price)
        /\ last_call.alert_id = a /\ last_call.sent = <<>>

\* C4: last_notified_price is written only by a send whose notifier reported
\* success, with the price passed to the notifier; every other path of
\* process_alert leaves it as it was (a rollback restores the committed value).
C4_WrittenOnlyOnSuccess ==
    [][\A a \in AlertIds :
         /\ mem'[a].last_notified_price # mem[a].last_notified_price =>
              \/ /\ pc = "send" /\ a = cur
                 /\ sendres'[1].outcome = "ok"
                 /\ mem'[a].last_notified_price = Some(sendres'[1].current_price)
              \/ /\ CallEnds /\ ~last_call'.returned
                 /\ mem'[a].last_notified_price = alerts[a].last_notified_price
         /\ alerts'[a].last_notified_price # alerts[a].last_notified_price =>
              /\ pc = "commit" /\ a = cur
              /\ sendres # <<>> /\ sendres[1].outcome = "ok"
              /\ alerts'[a].last_notified_price = Some(sendres[1].current_price)]_vars

\* a send reported success and last_notified_price now holds the price sent
C4_Witness ==
    /\ pc = "commit"
    /\ sendres # <<>> /\ sendres[1].outcome = "ok"
    /\ mem[cur].last_notified_price = Some(sendres[1].current_price)
    /\ mem[cur].last_notified_price # alerts[cur].last_notified_price

\* C5: the committed last_notified_price of an alert never increases and is
\* never cleared.
C5_NeverIncreases ==
    [][\A a \in AlertIds :
         ~IsNone(alerts[a].last_notified_price) =>
             /\ ~IsNone(alerts'[a].last_notified_price)
             /\ Val(alerts'[a].last_notified_price) <= Val(alerts[a].last_notified_price)]_vars

\* an alert whose committed last_notified_price went down, with a higher
\* price seen in between
C5_Witness ==
    \E a \in AlertIds :
        /\ Len(LogsOf(a)) = 2
        /\ alerts[a].last_notified_price = Some(LogsOf(a)[2].price)
        /\ LogsOf(a)[2].price < LogsOf(a)[1].price
        /\ Len(RecordsOf(a)) = 3
        /\ RecordsOf(a)[2].price > LogsOf(a)[1].price

\* C6: a NotificationLog row is created only by a send that reported success;
\* its price is the alert's last_notified_price at that moment and its
\* trigger_reason is the reason _should_notify returned.
C6_LogRowMatchesAlert ==
    [][/\ (Len(pending') > Len(pending)
             /\ pending'[Len(pending')].table = "notification_logs") =>
            LET row == pending'[Len(pending')].row
            IN /\ pc = "send"
               /\ sendres'[1].outcome = "ok"
               /\ row.alert_id = cur
               /\ mem'[cur].last_notified_price = Some(row.price)
               /\ row.trigger_reason = decision[2]
               /\ decision[1]
               /\ row.trigger_reason \in {"first_time", "price_drop"}
       /\ notification_logs' # notification_logs =>
            LET row == notification_logs'[Len(notification_logs')]
            IN /\ notification_logs' = Append(notification_logs, row)
               /\ sendres # <<>> /\ sendres[1].outcome = "ok"
               /\ row.alert_id = cur
               /\ alerts'[cur].last_notified_price = Some(row.price)
               /\ row.trigger_reason = decision[2]]_vars

\* a committed price_drop row whose price is the alert's last_notified_price
C6_Witness ==
    \E a \in AlertIds :
        /\ Len(LogsOf(a)) = 2
        /\ LogsOf(a)[1].trigger_reason = "first_time"
        /\ LogsOf(a)[2].trigger_reason = "price_drop"
        /\ alerts[a].last_notified_price = Some(LogsOf(a)[2].price)

C8_StampedWhateverOutcome ==
    [][CallEnds => alerts'[cur].last_checked = Some(clock')]_vars

\* C8 amended: after a call that returns True (the scrape returned a result,
\* with or without a price) the persisted last_checked is the time of that
\* call; a call that returns False (the scrape raised, or the commit raised)
\* leaves the persisted last_checked as it was.
C8_StampedWhenReturnedTrue ==
    [][CallEnds =>
         LET c == last_call'
         IN /\ c.returned => /\ ~c.raised
                             /\ alerts'[cur].last_checked = Some(clock')
                             /\ c.at = clock'
            /\ ~c.returned => alerts'[cur].last_checked = alerts[cur].last_checked
            /\ \A a \in AlertIds \ {cur} :
                   alerts'[a].last_checked = alerts[a].last_checked]_vars

\* an alert checked twice: the second call found no price and its time is
\* the persisted last_checked
C8_Witness ==
    \E a \in AlertIds :
        /\ hist[a].calls = 2 /\ hist[a].committed = 2
        /\ last_call.alert_id = a /\ ~last_call.raised /\ IsNone(last_call.price)
        /\ alerts[a].last_checked = Some(last_call.at)
        /\ last_call.at > 1

C10_FailureIsolation ==
    [][CallEnds =>
         LET c == last_call'
         IN /\ \A a \in AlertIds \ {cur} :
                   /\ alerts'[a] = alerts[a]
                   /\ RecordsOf(a)' = RecordsOf(a)
                   /\ LogsOf(a)' = LogsOf(a)
            /\ ~c.returned =>
                   /\ alerts' = alerts
                   /\ price_records' = price_records
                   /\ notification_logs' = notification_logs
            /\ c.returned =>
                   \A k \in {cur} :
                       /\ alerts'[k].last_checked = Some(c.at)
                       /\ Priced(c) =>
                              RecordsOf(k)' = Append(RecordsOf(k),
                                  [alert_id |-> k, price |-> Val(c.price),
                                   availability |-> result.availability])
                       /\ Notified(c) =>
                              /\ LogsOf(k)' = Append(LogsOf(k),
                                     [alert_id |-> k,
                                      trigger_reason |-> c.sent[1].trigger_reason,
                                      price |-> Val(c.price)])
                              /\ alerts'[k].last_notified_price = c.price
            /\ mem' = alerts' /\ pending' = <<>>
            /\ batch' = batch /\ idx' = idx + 1
            /\ pc' = IF idx < Len(batch) THEN "scrape" ELSE "done"
            /\ stats'.success + stats'.failed = idx]_vars

\* a pass over two alerts: the first one's scrape raised, the second one was
\* processed, notified and committed
C10_Witness ==
    /\ pc = "done"
    /\ Len(batch) = 2 /\ ncalls = 2
    /\ hist[batch[1]].raised = 1
    /\ last_call.alert_id = batch[2]
    /\ last_call.returned /\ Notified(last_call)
    /\ stats = [total |-> 2, success |-> 1, failed |-> 1]
    /\ Len(RecordsOf(batch[2])) = 1
    /\ Len(LogsOf(batch[2])) = 1
    /\ alerts[batch[2]].last_notified_price = last_call.price
    /\ alerts[batch[2]].last_checked = Some(last_call.at)
    /\ alerts[batch[1]].last_checked = None

\* C11: the writes of one process_alert call reach the committed store
\* together, at the commit that ends a call returning True, or not at all: a
\* call that returns False leaves the committed store and the session as
\* they were before it; and the steps of a call follow each other in the
\* order scrape, stamp and persist observation, decide, notify, commit.
C11_AtomicPerAlert ==
    [][/\ (alerts' # alerts \/ price_records' # price_records
             \/ notification_logs' # notification_logs) =>
            /\ pc = "commit" /\ CallEnds /\ last_call'.returned
            /\ alerts' = mem
            /\ price_records' = price_records \o Rows(PendingOf("price_records"))
            /\ notification_logs' =
                   notification_logs \o Rows(PendingOf("notification_logs"))
            /\ \A a \in AlertIds \ {cur} : alerts'[a] = alerts[a]
       /\ (CallEnds /\ last_call'.returned) =>
            /\ alerts' = mem /\ mem' = mem /\ pending' = <<>>
            /\ Len(price_records') = Len(price_records) + Len(PendingOf("price_records"))
            /\ Len(notification_logs') =
                   Len(notification_logs) + Len(PendingOf("notification_logs"))
       /\ (CallEnds /\ ~last_call'.returned) =>
            /\ alerts' = alerts /\ price_records' = price_records
            /\ notification_logs' = notification_logs
            /\ mem' = alerts /\ pending' = <<>>
       /\ pc = "scrape" => (pc' = "store" \/ (CallEnds /\ last_call'.raised))
       /\ pc = "store" =>
            /\ mem'[cur].last_checked = Some(clock)
            /\ pc' = IF IsNone(result.price) THEN "commit" ELSE "decide"
            /\ decision' = <<FALSE, "">> /\ sendres' = <<>>
       /\ pc = "decide" =>
            /\ Len(PendingOf("price_records")) = 1
            /\ mem[cur].last_checked = Some(clock)
            /\ sendres' = <<>>
            /\ pc' = IF decision'[1] THEN "send" ELSE "commit"
       /\ pc = "send" =>
            /\ decision[1] /\ pc' = "commit"
            /\ mem[cur].last_notified_price = alerts[cur].last_notified_price
            /\ PendingOf("notification_logs") = <<>>
       /\ pc = "commit" => (CallEnds /\ ~last_call'.raised)]_vars

\* a call that sent its notification and whose commit raised: none of its
\* four writes is in the committed store
C11_Witness ==
    \E a \in AlertIds :
        /\ last_call.alert_id = a
        /\ ~last_call.raised /\ ~last_call.returned
        /\ Notified(last_call)
        /\ hist[a].calls = 1
        /\ alerts[a].last_checked = None
        /\ alerts[a].last_notified_price = None
        /\ RecordsOf(a) = <<>> /\ LogsOf(a) = <<>>
        /\ mem = alerts /\ pending = <<>>

\* C12: one pass of process_all_alerts calls process_alert once for every
\* active alert and for no inactive one; its tally has total = the number of
\* active alerts, success = the calls that returned True, failed = the calls
\* that returned False, and success + failed = total when the pass is done.
C12_TallyOfPass ==
    [][/\ (pc = "idle" /\ pc' # "idle") =>
            /\ {batch'[i] : i \in 1..Len(batch')} =
                   {a \in AlertIds : alerts[a].is_active}
            /\ \A i, j \in 1..Len(batch') : batch'[i] = batch'[j] => i = j
            /\ stats' = [total |-> Cardinality({a \in AlertIds : alerts[a].is_active}),
                         success |-> 0, failed |-> 0]
            /\ idx' = 1
       /\ CallEnds =>
            /\ idx \in 1..Len(batch)
            /\ last_call'.alert_id = batch[idx]
            /\ alerts[batch[idx]].is_active
            /\ idx' = idx + 1 /\ batch' = batch
            /\ stats'.total = stats.total
            /\ stats'.success = stats.success + (IF last_call'.returned THEN 1 ELSE 0)
            /\ stats'.failed = stats.failed + (IF last_call'.returned THEN 0 ELSE 1)
       /\ (pc # "idle" /\ ~CallEnds) =>
            (stats' = stats /\ idx' = idx /\ batch' = batch)
       /\ pc' = "done" =>
            /\ idx' = Len(batch') + 1
            /\ stats'.total = Len(batch')
            /\ stats'.success + stats'.failed = stats'.total]_vars

\* the second pass over a store with one active and one inactive alert is
\* done: the active alert was processed once in each pass, the inactive one
\* never
C12_Witness ==
    /\ pc = "done"
    /\ Len(batch) = 1
    /\ \E a \in AlertIds : ~alerts[a].is_active /\ hist[a].calls = 0
    /\ hist[batch[1]].calls = 2 /\ hist[batch[1]].committed = 1
    /\ stats = [total |-> 1, success |-> 0, failed |-> 1]

\* the notifier was called and returned false or raised
SendFailed(c) == c.sent # <<>> /\ c.sent[1].outcome \in {"false", "raised"}

\* C13 as stated: when the decision says notify and the notifier returns
\* false or raises, the call leaves last_notified_price unchanged, creates no
\* NotificationLog, commits the PriceRecord and last_checked, returns True
\* and is not counted as failed.
C13_SendFailureStillSucceeds ==
    [][(CallEnds /\ SendFailed(last_call')) =>
         LET c == last_call'
         IN /\ alerts'[cur].last_notified_price = alerts[cur].last_notified_price
            /\ notification_logs' = notification_logs
            /\ price_records' = Append(price_records,
                   [alert_id |-> cur, price |-> Val(c.price),
                    availability |-> result.availability])
            /\ alerts'[cur].last_checked = Some(clock')
            /\ c.returned
            /\ stats'.failed = stats.failed]_vars

\* C13 amended: a failed send changes neither last_notified_price nor the
\* session's rows, and creates no NotificationLog; the call goes on to the
\* commit and, unless the commit raises, commits the PriceRecord and
\* last_checked, returns True and is not counted as failed; if the commit
\* raises, nothing is committed and the call returns False and is counted as
\* failed.
C13_SendFailureSucceedsIfCommitted ==
    [][/\ (pc = "send" /\ sendres' # <<>> /\ sendres'[1].outcome # "ok") =>
            (mem' = mem /\ pending' = pending /\ pc' = "commit")
       /\ (CallEnds /\ SendFailed(last_call')) =>
            LET c == last_call'
            IN /\ pc = "commit"
               /\ alerts'[cur].last_notified_price = alerts[cur].last_notified_price
               /\ notification_logs' = notification_logs
               /\ \/ /\ c.returned
                     /\ price_records' = Append(price_records,
                            [alert_id |-> cur, price |-> Val(c.price),
                             availability |-> result.availability])
                     /\ alerts'[cur].last_checked = Some(clock')
                     /\ stats'.failed = stats.failed
                     /\ stats'.success = stats.success + 1
                  \/ /\ ~c.returned
                     /\ price_records' = price_records
                     /\ alerts' = alerts
                     /\ stats'.failed = stats.failed + 1]_vars

\* a pass over one alert whose notifier raised: the observation is committed,
\* nothing records a notification, the call counts as a success
C13_Witness ==
    /\ pc = "done"
    /\ Len(batch) = 1 /\ ncalls = 1
    /\ last_call.sent # <<>> /\ last_call.sent[1].outcome = "raised"
    /\ last_call.returned
    /\ stats = [total |-> 1, success |-> 1, failed |-> 0]
    /\ Len(RecordsOf(batch[1])) = 1
    /\ LogsOf(batch[1]) = <<>>
    /\ alerts[batch[1]].last_notified_price = None
    /\ alerts[batch[1]].last_checked = Some(last_call.at)

C15_AtMostThreeAttempts ==
    [][/\ scraper'.attempt <= MaxAttempts
       /\ pc = "attempt" =>
            /\ scraper.failed = scraper.attempt
            /\ scraper.surfaced = <<>>
            /\ scraper'.attempt = scraper.attempt + 1
            /\ scraper'.failed = scraper.failed =>
                   /\ pc' = "stop_page"
                   /\ result' \in SessionResults
                   /\ scraper'.exc = <<>> /\ scraper'.surfaced = <<>>
       /\ pc' = "attempt" =>
            /\ pc \in {"start_init", "retry"}
            /\ pc = "retry" => scraper.attempt < MaxAttempts
       /\ pc \in {"stop_page", "stop_browser", "stop_playwright"} =>
            /\ result' = result
            /\ scraper'.attempt = scraper.attempt
       /\ scraper'.surfaced # scraper.surfaced =>
            \/ pc = "scrape"
            \/ /\ pc = "retry"
               /\ scraper.attempt = MaxAttempts /\ scraper.failed = MaxAttempts
               /\ scraper'.surfaced = scraper.exc
               /\ scraper.exc # <<>> /\ scraper.exc[1].attempt = MaxAttempts]_vars

\* two attempts raised, the third returned a page without a price, and the
\* call went on with that result
C15_Witness ==
    /\ pc = "store"
    /\ scraper.attempt = 3 /\ scraper.failed = 2
    /\ result = [price |-> None, availability |-> "unknown"]
    /\ scraper.surfaced = <<>>

\* C16: a backoff delay is slept only between a failed attempt k (k = 1, 2)
\* and attempt k+1; its base doubles with each retry (1, 2) and the delay is
\* the base clamped to at least 2 and at most 10 seconds; nothing is slept
\* before the first attempt or after the last.
C16_BackoffDelays ==
    [][/\ scraper'.delays # scraper.delays =>
            \/ pc = "scrape" /\ scraper'.delays = <<>>
            \/ /\ pc = "retry" /\ pc' = "attempt"
               /\ scraper.attempt \in {1, 2}
               /\ Len(scraper.delays) = scraper.attempt - 1
               /\ LET base == 2 ^ (scraper.attempt - 1)
                      delay == IF base < 2 THEN 2 ELSE IF base > 10 THEN 10 ELSE base
                  IN scraper'.delays = Append(scraper.delays, delay)
       /\ (pc = "retry" /\ scraper.attempt < MaxAttempts) =>
            Len(scraper'.delays) = Len(scraper.delays) + 1
       /\ (pc = "retry" /\ scraper.attempt = MaxAttempts) =>
            scraper'.delays = scraper.delays
       /\ (pc' = "attempt" /\ scraper'.attempt = 0) => scraper'.delays = <<>>
       /\ \A k \in 1..Len(scraper'.delays) :
            scraper'.delays[k] >= 2 /\ scraper'.delays[k] <= 10]_vars

\* three attempts raised: 2 seconds were slept after the first and 2 after
\* the second, none after the third
C16_Witness ==
    /\ pc = "stop_page"
    /\ scraper.surfaced # <<>>
    /\ scraper.attempt = 3 /\ scraper.failed = 3
    /\ scraper.delays = <<2, 2>>

\* the renderer resources the scraper of the current call holds open
Held == {f \in {"playwright", "browser", "page"} : scraper[f] = "open"}

\* C17: a scrape_with_retry call that fails on all 3 attempts has written
\* exactly one screenshot and exactly one markup dump, both captured after
\* the retries were exhausted; a call that succeeds writes none after the
\* successful attempt.
C17_OneDiagnosticAfterRetries ==
    /\ scraper.surfaced # <<>> => (scraper.screenshots = 1 /\ scraper.dumps = 1)
    /\ pc \in {"save_screenshot", "save_html"} => scraper.attempt = MaxAttempts
    /\ (pc = "store" /\ scraper.attempt > 0) =>
           scraper.screenshots + scraper.dumps <= 2 * scraper.failed

\* C18: an exception raised while capturing diagnostics is swallowed: what
\* scrape_with_retry raises is always a scraping exception, and the markup
\* dump is attempted also when the screenshot raised.
C18_DiagnosticFailureSwallowed ==
    [][/\ scraper'.surfaced # <<>> => scraper'.surfaced[1].kind = "scrape"
       /\ pc = "save_screenshot" => pc' = "save_html"]_vars

\* C19: when a process_alert call returns, every renderer resource its
\* scraper acquired has been released, whatever the scrape did and also when
\* start or an earlier release step failed part-way.
C19_SessionReleasedOnReturn ==
    [][CallEnds => Held = {}]_vars

\* C20: each processed alert whose scraper acquired a renderer opened one
\* browser session and closed it once, however many attempts were made;
\* attempts and diagnostic captures happen while the session is open; and
\* the session of the next alert is opened only after the session of the
\* previous one was closed.
C20_OneSessionPerAlertInSequence ==
    [][/\ (CallEnds /\ scraper.playwright # "none") =>
            (scraper.starts = 1 /\ scraper.stops = 1)
       /\ pc \in {"attempt", "save_screenshot", "save_html", "retry"} =>
            Held = {"playwright", "browser", "page"}
       /\ (pc = "scrape" /\ pc' # "scrape") => Held = {}]_vars

\* the call is ending on the ValueError of get_scraper
UnknownSource == scraper.exc # <<>> /\ scraper.exc[1].kind = "config"

\* C21: an alert whose source is unknown fails at get_scraper: the call
\* returns False without having started a renderer, made a scrape attempt,
\* slept a backoff or written a diagnostic, commits nothing, is counted as
\* failed, and the loop goes on to the next alert of the batch.
C21_UnknownSourceFailsAtOnce ==
    [][/\ (pc = "scrape" /\ scraper'.exc # <<>>) =>
            (scraper'.exc[1].kind = "config" /\ pc' = "except")
       /\ (CallEnds /\ UnknownSource) =>
            /\ ~last_call'.returned /\ last_call'.raised
            /\ scraper.starts = 0 /\ scraper.stops = 0
            /\ scraper.playwright = "none" /\ scraper.browser = "none"
            /\ scraper.page = "none"
            /\ scraper.attempt = 0 /\ scraper.delays = <<>>
            /\ scraper.screenshots = 0 /\ scraper.dumps = 0
            /\ alerts' = alerts /\ price_records' = price_records
            /\ notification_logs' = notification_logs
            /\ mem' = alerts /\ pending' = <<>>
            /\ stats'.failed = stats.failed + 1
            /\ stats'.success = stats.success
            /\ idx' = idx + 1 /\ batch' = batch
            /\ pc' = IF idx < Len(batch) THEN "scrape" ELSE "done"]_vars

\* the first alert of a pass of two had an unknown source: its call has
\* returned False, nothing was started, and the loop is at the second alert
C21_Witness ==
    /\ pc = "scrape"
    /\ Len(batch) = 2 /\ idx = 2
    /\ UnknownSource
    /\ scraper.starts = 0
    /\ last_call.alert_id = batch[1]
    /\ last_call.raised /\ ~last_call.returned
    /\ alerts[batch[1]].last_checked = None
    /\ stats = [total |-> 2, success |-> 0, failed |-> 1]

\* the sold-out phrases of each source
SoldOutPhrases(source) ==
    CASE source = "ticketmaster" ->
             {"sold out", "no tickets available", "event has passed", "unavailable"}
      [] source = "stubhub" ->
             {"sold out", "no tickets available", "event has ended", "no longer available"}
      [] source = "viagogo" ->
             {"sold out", "no tickets available", "event has ended", "no longer on sale"}

\* the text a scrape of the page works on
TextRead(pg) ==
    IF pg.source = "ticketmaster" /\ ~\E i \in 1..Len(pg.text) : pg.text[i].kind = "price"
    THEN pg.html
    ELSE pg.text

\* a sold-out phrase of the source occurs in the text, in any case
ShowsSoldOut(pg) ==
    \E i \in 1..Len(TextRead(pg)) :
        /\ TextRead(pg)[i].kind = "phrase"
        /\ TextRead(pg)[i].words \in SoldOutPhrases(pg.source)

\* C22: for every source the availability of a scrape result is sold_out if a
\* sold-out phrase of the source occurs in the lower-cased page text (even
\* with a price), otherwise available if a price was extracted, otherwise
\* unknown, and it takes no other value.
C22_AvailabilityRule ==
    pc = "read" =>
        result.availability =
            IF ShowsSoldOut(page) THEN "sold_out"
            ELSE IF ~IsNone(result.price) THEN "available" ELSE "unknown"

\* the rule as far as the code follows it: on every result of the shared
\* scrape routine, and on the inline ones when no page call raised
C22_RuleUnlessPageCallRaised ==
    (pc = "read" /\ page.fails = "none") =>
        result.availability =
            IF ShowsSoldOut(page) THEN "sold_out"
            ELSE IF ~IsNone(result.price) THEN "available" ELSE "unknown"

\* the currencies a source looks for, highest priority first
PriorityOrder(source) ==
    CASE source = "ticketmaster" -> <<"USD", "GBP">>
      [] source = "stubhub" -> <<"USD", "GBP">>
      [] source = "viagogo" -> <<"USD", "GBP", "EUR">>

\* the positions of the text read that show a price in currency c
Occurrences(pg, c) ==
    {i \in 1..Len(TextRead(pg)) :
        TextRead(pg)[i].kind = "price" /\ TextRead(pg)[i].currency = c}

\* the n-th smallest element of a set of positions
RECURSIVE Nth(_, _)
Nth(S, n) ==
    LET m == CHOOSE x \in S : \A y \in S : x <= y
    IN IF n = 1 THEN m ELSE Nth(S \ {m}, n - 1)

\* res is what the extraction rule gives on page pg
Extracted(pg, res) ==
    LET order == PriorityOrder(pg.source)
        hits == {k \in 1..Len(order) : Occurrences(pg, order[k]) # {}}
    IN IF hits = {}
       THEN /\ IsNone(res.price)
            /\ IsNone(res.raw_data.currency)
            /\ IsNone(res.raw_data.all_prices_found)
       ELSE LET k == CHOOSE x \in hits : \A y \in hits : x <= y
                occ == Occurrences(pg, order[k])
                kept == Val(res.raw_data.all_prices_found)
            IN /\ res.price = Some(float(TextRead(pg)[Nth(occ, 1)].groups))
               /\ res.raw_data.currency = Some(order[k])
               /\ Len(kept) <= 10
               /\ Len(kept) = IF Cardinality(occ) < 10 THEN Cardinality(occ) ELSE 10
               /\ \A n \in 1..Len(kept) :
                      kept[n].digits = TextRead(pg)[Nth(occ, n)].groups

\* C23: the extractor takes the first currency of the source's priority order
\* that has a match; the price is that currency's first match in document
\* order, matches of lower-priority currencies are ignored even when they come
\* earlier, with no match the price and currency are absent and nothing is
\* raised, and at most the first 10 matches are kept for diagnostics.
C23_ExtractorPriority ==
    [][(pc = "scrape" /\ page.fails = "none") =>
           (pc' = "read" /\ Extracted(page, result'))]_vars

\* a GBP price precedes a USD price on a ticketmaster page and the USD one is
\* returned
C23_Witness ==
    /\ pc = "read"
    /\ page.source = "ticketmaster"
    /\ page.fails = "none"
    /\ page.text = <<PriceToken("GBP", <<2>>), PriceToken("USD", <<1>>)>>
    /\ result.price = Some(1)
    /\ result.raw_data.currency = Some("USD")
    /\ Len(Val(result.raw_data.all_prices_found)) = 1

\* C24: for each of the three sources the scrape returns a ScrapeResult of the
\* same shape, so a scrape that finds a price makes process_alert return True
\* and commit a PriceRecord with that price.
C24_EverySourceReturnsScrapeResult ==
    [][/\ pc' = "read" => result'.kind = "ScrapeResult"
       /\ (CallEnds /\ ~IsNone(result.price)) =>
              /\ last_call'.returned
              /\ \E i \in 1..Len(price_records') :
                     /\ price_records'[i].alert_id = last_call'.alert_id
                     /\ price_records'[i].price = Val(result.price)]_vars

\* C25: the startup pass issued by start runs at once with no jitter sleep
\* before it; every periodic pass is preceded by exactly one sleep of a
\* duration in [0, jitter ceiling], by none when the ceiling is 0, and begins
\* only after that sleep has ended.
C25_JitterBeforePeriodicOnly ==
    [][/\ (sched.at.caller = "scheduler_start" /\ sched'.at.caller = "pass") =>
              sched'.sleeps.caller = <<>>
       /\ (sched.at.worker \notin {"pass", "scrape"} /\ sched'.at.worker = "pass") =>
              /\ sched.at.worker = "slept"
              /\ IF sched.jitter_minutes = 0
                 THEN sched'.sleeps.worker = <<>>
                 ELSE /\ Len(sched'.sleeps.worker) = 1
                      /\ sched'.sleeps.worker[1] >= 0
                      /\ sched'.sleeps.worker[1] <= sched.jitter_minutes * 60
       /\ sched.at.worker = "sleeping" =>
              sched'.at.worker \in {"sleeping", "slept"}]_vars

\* a periodic pass running after a sleep of half a minute, the startup pass
\* having run without one
C25_Witness ==
    /\ sched.last = "start"
    /\ sched.at.worker = "scrape"
    /\ sched.jitter_minutes = 1
    /\ sched.sleeps.worker = <<30>>
    /\ sched.sleeps.caller = <<>>

\* C26: the scheduler is either Stopped or Running; start makes it Running
\* with the interval job registered and one immediate pass executed; stop
\* makes it Stopped, cancels the job and waits for the pass in flight, so
\* that when stop returns no pass is executing and none starts afterwards;
\* stop on a scheduler that is not running changes nothing.
C26_TwoStateScheduler ==
    [][/\ sched'.running \in BOOLEAN
       /\ (sched.at.caller = "pass" /\ sched'.at.caller = "idle") =>
              /\ sched'.running /\ sched'.job
              /\ sched.left.caller = 0
              /\ sched'.last = "start"
       /\ (sched.at.caller = "shutdown" /\ sched'.at.caller = "idle") =>
              /\ ~sched'.running /\ ~sched'.job
              /\ sched'.at.worker = "idle"
       /\ (~sched.running /\ sched.at.caller = "idle") =>
              /\ sched.at.worker = "idle" /\ sched'.at.worker = "idle"
              /\ ~sched.job
       /\ (~sched.running /\ sched.at.caller = "idle" /\ sched'.at.caller = "idle") =>
              [sched' EXCEPT !.last = sched.last] = sched]_vars

\* stop has been called while a periodic pass is scraping and waits for it
C26_Witness ==
    /\ sched.at.caller = "shutdown"
    /\ sched.at.worker = "scrape"
    /\ ~sched.running

\* C27: no blocking point of a pass (navigation wait, render-settle delay,
\* backoff sleep, jitter sleep) is executed on the main thread, which handles
\* the shutdown signals.
C27_MainThreadNeverBlocksInPass ==
    /\ sched.at.caller \notin {"scrape", "sleeping"}
    /\ sched.sleeps.caller = <<>>

\* C28: a shutdown signal is honoured only between passes: a scrape in flight
\* when it arrives, in the startup pass or a periodic one, and its alert's
\* processing run to their end before the process stops, and the scheduler
\* is stopped as part of shutdown.
C28_ShutdownBetweenPasses ==
    sched.at.caller = "ended" =>
        /\ sched.aborted = "none"
        /\ sched.at.worker = "idle"
        /\ ~sched.running

\* send_notification returns in this step
NotifierReturns == smtp.at # "returned" /\ smtp'.at = "returned"

\* C29: send_notification never raises; it returns True exactly when the
\* message was handed to the SMTP server without error, and False when
\* connecting, authenticating or sending fails.
C29_TrueExactlyWhenHanded ==
    [][NotifierReturns =>
           /\ ~smtp'.raised
           /\ smtp'.ret <=> smtp'.handed
           /\ smtp'.failed \in {"connect", "starttls", "login", "send_message"} =>
                  ~smtp'.ret]_vars

\* what the code does guarantee: it never raises, True is returned only for a
\* message the server accepted, and a failure to connect, authenticate or
\* send gives False
C29_TrueOnlyWhenHanded ==
    [][NotifierReturns =>
           /\ ~smtp'.raised
           /\ smtp'.ret => smtp'.handed
           /\ smtp'.failed \in {"connect", "starttls", "login", "send_message"} =>
                  ~smtp'.ret]_vars

\* C30: every Alert in the store, whether config sync created or updated it,
\* has target_price > 0.
C30_TargetPricePositive ==
    \A i \in DOMAIN alerts : alerts[i].target_price > 0

\* C31: for every source a transient failure during a scrape attempt (a
\* navigation timeout, a load timeout or a page-read error after navigation)
\* raises out of scrape, so that it is retried and only the last attempt's
\* failure reaches process_alert; scrape never turns it into a returned result.
C31_TransientFailureRaises ==
    [][(pc = "scrape" /\ page.fails # "none") =>
           (pc' = "except" /\ result' = result)]_vars

\* the text the extractor is to be given: the body text when it shows a
\* currency symbol, the markup otherwise
TextOrMarkup(pg) ==
    IF \E i \in 1..Len(pg.text) : pg.text[i].kind = "price"
    THEN pg.text
    ELSE pg.html

\* the price the priority rule gives on a text
PriceIn(text, order) ==
    LET at(c) == {i \in 1..Len(text) : text[i].kind = "price" /\ text[i].currency = c}
        hits == {k \in 1..Len(order) : at(order[k]) # {}}
    IN IF hits = {} THEN None
       ELSE LET k == CHOOSE x \in hits : \A y \in hits : x <= y
            IN Some(float(text[Nth(at(order[k]), 1)].groups))

\* C32: for every source the extractor works on the body's visible text when
\* it contains a currency symbol and on the full markup otherwise, so a price
\* present only in the markup is still extracted.
C32_MarkupFallback ==
    (pc = "read" /\ page.fails = "none") =>
        result.price = PriceIn(TextOrMarkup(page), PriorityOrder(page.source))

\* the fallback as the shared scrape routine performs it, for ticketmaster
C32_MarkupFallbackTicketmaster ==
    (pc = "read" /\ page.fails = "none" /\ page.source = "ticketmaster") =>
        result.price = PriceIn(TextOrMarkup(page), PriorityOrder(page.source))

\* thread t is inside process_all_alerts
InPass(t) == sched.at[t] \in {"pass", "scrape"}

\* C34: no two passes of process_all_alerts run at the same time on the shared
\* database session: the startup pass on the calling thread and a periodic
\* pass on the scheduler's thread never overlap, nor do two periodic passes,
\* so at most one renderer session is open at any time.
C34_PassesNeverOverlap ==
    /\ ~(InPass("caller") /\ InPass("worker"))
    /\ ~(sched.at.caller = "scrape" /\ sched.at.worker = "scrape")

\* C35: for every alert the notifications the notifier reported as sent are
\* as many as the committed NotificationLog rows, also when an exception or a
\* commit failure follows the send within the same call, so no trigger is
\* mailed twice.
C35_SentEqualsLogged ==
    [][CallEnds =>
         \A k \in {cur} :
             Len(LogsOf(k))' - Len(LogsOf(k)) =
                 IF Notified(last_call') THEN 1 ELSE 0]_vars

\* C36: whether process_alert attempts a notification is a function of
\* target_price, last_notified_price and the scraped price alone, never of the
\* scraped availability; a price below target classified sold_out notifies
\* like one classified available.
C36_AvailabilityNeverDecides ==
    [][pc = "decide" =>
         \A k \in {cur} :
             (pc' = "send") <=>
                 /\ Val(result.price) < alerts[k].target_price
                 /\ \/ IsNone(alerts[k].last_notified_price)
                    \/ Val(result.price) < Val(alerts[k].last_notified_price)]_vars

\* a notification is being attempted for a price the scrape classified sold_out
C36_Witness ==
    /\ pc = "send"
    /\ result.availability = "sold_out"
    /\ Val(result.price) < alerts[cur].target_price
    /\ decision[1]

\* C37: for an alert that starts with no last_notified_price, the first of
\* its NotificationLog rows has reason first_time and every later row has
\* reason price_drop with a price strictly below the previous row's; the
\* previous_price handed to the notifier is absent exactly when the reason is
\* first_time and is otherwise the previous row's price.
C37_LogReasonsAndPreviousPrice ==
    /\ \A a \in AlertIds :
           \A k \in 1..Len(LogsOf(a)) :
               IF k = 1
               THEN LogsOf(a)[k].trigger_reason = "first_time"
               ELSE /\ LogsOf(a)[k].trigger_reason = "price_drop"
                    /\ LogsOf(a)[k].price < LogsOf(a)[k - 1].price
    /\ (pc = "commit" /\ sendres # <<>>) =>
           /\ IsNone(sendres[1].previous_price) <=>
                  sendres[1].trigger_reason = "first_time"
           /\ sendres[1].trigger_reason \in {"first_time", "price_drop"}
           /\ ~IsNone(sendres[1].previous_price) =>
                  /\ LogsOf(cur) # <<>>
                  /\ Val(sendres[1].previous_price) =
                         LogsOf(cur)[Len(LogsOf(cur))].price

\* an alert whose second notification, a price_drop handed to the notifier
\* with the first row's price as previous_price, has just been committed
C37_Witness ==
    \E a \in AlertIds :
        /\ last_call.alert_id = a
        /\ Notified(last_call)
        /\ Len(LogsOf(a)) = 2
        /\ LogsOf(a)[1].trigger_reason = "first_time"
        /\ LogsOf(a)[2].trigger_reason = "price_drop"
        /\ LogsOf(a)[2].price < LogsOf(a)[1].price
        /\ last_call.sent[1].previous_price = Some(LogsOf(a)[1].price)

\* the names the entries of a configuration carry
NamesIn(config) ==
    {Val(config[k].name) : k \in {j \in 1..Len(config) : ~IsNone(config[j].name)}}

\* the entries of a configuration that name n and give field f
Giving(config, n, f) ==
    {k \in 1..Len(config) : config[k].name = Some(n) /\ ~IsNone(config[k][f])}

\* the value the last of a non-empty set of entries gives for field f
LastGiven(config, ks, f) ==
    Val(config[CHOOSE k \in ks : \A j \in ks : j <= k][f])

\* C33: config sync matches alerts by name, creates the missing ones and
\* updates only the configured fields of existing ones; it never changes
\* last_notified_price or last_checked, never deletes an alert or a record,
\* skips entries without a name, and applying the same configuration a second
\* time leaves the store as the first application left it.
C33_SyncFrame ==
    [][(pc = "sync" /\ pc' \in {"synced", "sync_failed"}) =>
         /\ price_records' = price_records
         /\ notification_logs' = notification_logs
         /\ Len(alerts') >= Len(alerts)
         /\ \A i \in 1..Len(alerts) :
                /\ alerts'[i].name = alerts[i].name
                /\ alerts'[i].last_notified_price = alerts[i].last_notified_price
                /\ alerts'[i].last_checked = alerts[i].last_checked
                /\ alerts[i].name \notin NamesIn(alerts_config) =>
                       alerts'[i] = alerts[i]
         /\ \A i \in (Len(alerts) + 1)..Len(alerts') :
                /\ alerts'[i].name \in NamesIn(alerts_config)
                /\ \A j \in 1..Len(alerts) : alerts[j].name # alerts'[i].name
                /\ IsNone(alerts'[i].last_notified_price)
                /\ IsNone(alerts'[i].last_checked)
         /\ \A i, j \in 1..Len(alerts') :
                alerts'[i].name = alerts'[j].name => i = j
         /\ pc' = "synced" =>
                /\ \A n \in NamesIn(alerts_config) :
                       \E i \in 1..Len(alerts') :
                           /\ alerts'[i].name = n
                           /\ Giving(alerts_config, n, "target_price") # {} =>
                                  alerts'[i].target_price =
                                      LastGiven(alerts_config,
                                          Giving(alerts_config, n, "target_price"),
                                          "target_price")
                           /\ Giving(alerts_config, n, "active") # {} =>
                                  alerts'[i].is_active =
                                      LastGiven(alerts_config,
                                          Giving(alerts_config, n, "active"), "active")
                /\ apply_config([store |-> alerts', failed |-> FALSE], alerts_config) =
                       [store |-> alerts', failed |-> FALSE]]_vars

\* a sync that gave the notified alert a new target and created a second
\* alert, the first keeping its last_notified_price and last_checked
C33_Witness ==
    /\ pc = "synced"
    /\ Len(alerts) = 2
    /\ alerts_config = <<[name |-> Some("a"), target_price |-> Some(1), active |-> None],
                         [name |-> Some("b"), target_price |-> Some(2), active |-> Some(FALSE)]>>
    /\ alerts[1] = [name |-> "a", target_price |-> 1, last_notified_price |-> Some(1),
                    last_checked |-> Some(1), is_active |-> TRUE]
    /\ alerts[2] = [name |-> "b", target_price |-> 2, last_notified_price |-> None,
                    last_checked |-> None, is_active |-> FALSE]
    /\ Len(notification_logs) = 1

\* C38 (as stated): in every reachable state an alert's last_notified_price,
\* when present, is strictly below its target_price, also after config sync
\* has changed the target_price of an alert already notified; and every
\* NotificationLog row is created with a price below the target_price of its
\* alert at that moment
C38_NotifiedBelowTarget ==
    [][/\ \A i \in DOMAIN alerts' :
              ~IsNone(alerts'[i].last_notified_price)
                  => Val(alerts'[i].last_notified_price) < alerts'[i].target_price
       /\ \A k \in (Len(notification_logs) + 1)..Len(notification_logs') :
              notification_logs'[k].price
                  < alerts[notification_logs'[k].alert_id].target_price]_vars

\* C38 (amended): last_notified_price is strictly below the target_price in
\* force at the step that sets it; config sync leaves the last_notified_price
\* of every existing alert as it was, whatever it does to target_price, and
\* creates alerts without one; and every NotificationLog row is created with a
\* price below the target_price of its alert at that moment
C38_NotifiedBelowTargetWhenSet ==
    [][/\ \A i \in DOMAIN alerts' :
              (i \notin DOMAIN alerts
                  \/ alerts'[i].last_notified_price # alerts[i].last_notified_price)
              => \/ IsNone(alerts'[i].last_notified_price)
                 \/ Val(alerts'[i].last_notified_price) < alerts'[i].target_price
       /\ pc = "sync" =>
              /\ Len(alerts') >= Len(alerts)
              /\ \A i \in DOMAIN alerts :
                     alerts'[i].last_notified_price = alerts[i].last_notified_price
              /\ \A i \in DOMAIN alerts' \ DOMAIN alerts :
                     IsNone(alerts'[i].last_notified_price)
       /\ \A k \in (Len(notification_logs) + 1)..Len(notification_logs') :
              notification_logs'[k].price
                  < alerts[notification_logs'[k].alert_id].target_price]_vars

\* an alert notified at 2 under target MaxPrice, whose target_price a later
\* sync has moved down to 1: the notified price stays, above the new target
C38_Witness ==
    /\ pc = "synced"
    /\ Len(alerts) = 1
    /\ alerts[1].target_price = 1
    /\ alerts[1].last_notified_price = Some(2)
    /\ \E k \in DOMAIN notification_logs :
           /\ notification_logs[k].alert_id = 1
           /\ notification_logs[k].price = 2

====
